---- MODULE Spec2Model ----
(***************************************************************************)
(* Comment moderation pipeline of webh5_py (src/app/moderation.py) and the *)
(* comment routes that trigger it (src/app/routes/comments.py).            *)
(*                                                                         *)
(* A Python str is a sequence of one-character strings.  Python's None is  *)
(* the record NoneVal, a str s is Some(s).  One action is the code a       *)
(* coroutine runs between two suspensions of the event loop: asyncio runs  *)
(* everything between two network awaits without interleaving.             *)
(***************************************************************************)
EXTENDS Integers, Sequences, FiniteSets, TLC

(* ------------------------------------------------------------------ *)
(* Bounds of the model                                                 *)
(* ------------------------------------------------------------------ *)
\* comments created in one behaviour
MaxComments == 2
\* calendar dates the process lives through
MaxDate == 2
\* the configured daily cap (Settings.MODERATION_DAILY_LIMIT, 500 by default)
MODERATION_DAILY_LIMIT == 1

\* the expiry _increment_api_calls puts on the counter key
REDIS_EXPIRE_SECONDS == 90000

(* ------------------------------------------------------------------ *)
(* Python values                                                       *)
(* ------------------------------------------------------------------ *)
NoneVal == [isNone |-> TRUE, s |-> <<>>]
Some(str) == [isNone |-> FALSE, s |-> str]

Whitespace == {" ", "\n", "\t", "\r"}

UpperCase == <<"A", "B", "C", "D", "E", "F", "G", "H", "I", "J", "K", "L", "M",
               "N", "O", "P", "Q", "R", "S", "T", "U", "V", "W", "X", "Y", "Z">>
LowerCase == <<"a", "b", "c", "d", "e", "f", "g", "h", "i", "j", "k", "l", "m",
               "n", "o", "p", "q", "r", "s", "t", "u", "v", "w", "x", "y", "z">>

\* str.lower() on one character: the cased ASCII letters; every other
\* character the model uses (digits, punctuation, CJK) has no lower case.
\* A character outside ASCII is written by its code point, "U+52A0", and so
\* is the backquote, "U+0060", which a TLA+ string cannot hold.
LowerChar(ch) ==
    IF \E i \in 1..Len(UpperCase) : UpperCase[i] = ch
    THEN LowerCase[CHOOSE i \in 1..Len(UpperCase) : UpperCase[i] = ch]
    ELSE ch

\* str.lower()
lower(str) == [i \in 1..Len(str) |-> LowerChar(str[i])]

\* the Python test  word in text
IsSubstring(word, text) ==
    \E i \in 1..(Len(text) - Len(word) + 1) :
        SubSeq(text, i, i + Len(word) - 1) = word

\* str.startswith
startswith(str, prefix) ==
    Len(str) >= Len(prefix) /\ SubSeq(str, 1, Len(prefix)) = prefix

\* str.strip()
strip(str) ==
    LET keep == {i \in 1..Len(str) : str[i] \notin Whitespace}
    IN  IF keep = {} THEN <<>>
        ELSE LET first == CHOOSE i \in keep : \A j \in keep : i <= j
                 last  == CHOOSE i \in keep : \A j \in keep : j <= i
             IN  SubSeq(str, first, last)

(* ------------------------------------------------------------------ *)
(* The sensitive-term prefilter                                        *)
(* ------------------------------------------------------------------ *)
SENSITIVE_KEYWORDS == <<
    <<"U+50BB", "U+903C">>, <<"s", "b">>, <<"U+64CD">>,
    <<"U+8349">>, <<"U+5988">>, <<"U+7238">>,
    <<"U+65E5">>, <<"U+8279">>, <<"f", "u", "c", "k">>,
    <<"s", "h", "i", "t">>, <<"d", "a", "m", "n">>, <<"U+72D7">>,
    <<"U+732A">>, <<"U+8822">>, <<"U+767D", "U+75F4">>,
    <<"U+5F31", "U+667A">>, <<"U+667A", "U+969C">>, <<"U+8111", "U+6B8B">>,
    <<"U+5E9F", "U+7269">>, <<"U+5783", "U+573E">>, <<"U+6EDA">>,
    <<"U+6B7B">>, <<"U+6740">>, <<"U+6253">>,
    <<"U+63CD">>, <<"U+6027">>, <<"U+88F8">>,
    <<"U+8272", "U+60C5">>, <<"U+7EA6", "U+70AE">>, <<"U+4E00", "U+591C", "U+60C5">>,
    <<"U+63F4", "U+4EA4">>, <<"U+52A0", "U+5FAE", "U+4FE1">>, <<"U+52A0", "q", "q">>,
    <<"U+52A0", "v">>, <<"U+5A01", "U+4FE1">>, <<"U+8587", "U+4FE1">>,
    <<"U+79C1", "U+804A">>, <<"U+4F18", "U+60E0">>, <<"U+514D", "U+8D39", "U+9886">>,
    <<"U+70B9", "U+51FB", "U+94FE", "U+63A5">>, <<"h", "t", "t", "p", ":", "/", "/">>, <<"h", "t", "t", "p", "s", ":", "/", "/">>,
    <<".", "c", "o", "m">>, <<".", "c", "n">>, <<".", "t", "o", "p">>,
    <<"U+653F", "U+5E9C">>, <<"U+9886", "U+5BFC">>, <<"U+5B98", "U+5458">> >>

\* the loop of contains_sensitive_words returns True at the first keyword
\* found, False when the list is exhausted
contains_sensitive_words(content) ==
    LET content_lower == lower(content)
    IN  \E k \in 1..Len(SENSITIVE_KEYWORDS) :
            IsSubstring(lower(SENSITIVE_KEYWORDS[k]), content_lower)

\* comment bodies a client posts
ContentClean == <<"n", "i", "c", "e", " ", "p", "o", "s", "t", ",", " ",
                  "t", "h", "a", "n", "k", "s", "!">>
ContentAdvert == <<"U+52A0", "U+5FAE", "U+4FE1", "0", "0", "0", "0", " ", "U+4F18", "U+60E0">>
ContentUpperUrl == <<"V", "i", "s", "i", "t", " ", "H", "T", "T", "P", ":", "/", "/", "x">>
Contents == {ContentClean, ContentAdvert, ContentUpperUrl}
\* the bodies that hold a lexicon term
SensitiveContents == {x \in Contents : contains_sensitive_words(x)}

(* ------------------------------------------------------------------ *)
(* JSON values, as json.loads builds them                              *)
(* ------------------------------------------------------------------ *)
JNull == [t |-> "null"]
JBool(b) == [t |-> "bool", b |-> b]
JNum(n) == [t |-> "num", n |-> n]
JStr(str) == [t |-> "str", s |-> str]
JArr(items) == [t |-> "arr", items |-> items]
JObj(fields) == [t |-> "obj", fields |-> fields]
EmptyFields == [k \in {} |-> JNull]

ParseFail == [ok |-> FALSE]
ParseOk(v, next) == [ok |-> TRUE, v |-> v, next |-> next]

DigitChars == <<"0", "1", "2", "3", "4", "5", "6", "7", "8", "9">>
IsDigit(ch) == \E d \in 1..10 : DigitChars[d] = ch
DigitValue(ch) == (CHOOSE d \in 1..10 : DigitChars[d] = ch) - 1

\* the characters json accepts after a backslash, and what they stand for
\* (\b, \f and \uXXXX name characters outside the model's alphabet)
IsEscape(ch) == ch \in {"\"", "\\", "/", "n", "t", "r"}
Unescape(ch) ==
    CASE ch = "n" -> "\n" [] ch = "t" -> "\t" [] ch = "r" -> "\r" [] OTHER -> ch

RECURSIVE SkipWs(_, _)
SkipWs(str, i) ==
    IF i <= Len(str) /\ str[i] \in Whitespace THEN SkipWs(str, i + 1) ELSE i

\* json's string scanner, from the character after the opening quote: a
\* control character inside the literal is an error (strict mode)
RECURSIVE ScanString(_, _, _)
ScanString(str, j, acc) ==
    IF j > Len(str) THEN ParseFail
    ELSE IF str[j] = "\"" THEN ParseOk(acc, j + 1)
    ELSE IF str[j] = "\\"
         THEN IF j + 1 <= Len(str) /\ IsEscape(str[j + 1])
              THEN ScanString(str, j + 2, Append(acc, Unescape(str[j + 1])))
              ELSE ParseFail
    ELSE IF str[j] \in {"\n", "\t", "\r"} THEN ParseFail
    ELSE ScanString(str, j + 1, Append(acc, str[j]))

\* the digits of an integer literal, from position j
RECURSIVE ScanDigits(_, _, _)
ScanDigits(str, j, acc) ==
    IF j <= Len(str) /\ IsDigit(str[j])
    THEN ScanDigits(str, j + 1, 10 * acc + DigitValue(str[j]))
    ELSE [n |-> acc, next |-> j]

\* -?(0|[1-9][0-9]*); fractions and exponents are outside the model's replies
ScanNumber(str, i) ==
    LET neg == str[i] = "-"
        j == IF neg THEN i + 1 ELSE i
    IN  IF j > Len(str) \/ ~IsDigit(str[j]) THEN ParseFail
        ELSE IF str[j] = "0" THEN ParseOk(JNum(0), j + 1)
        ELSE LET d == ScanDigits(str, j, 0)
             IN  ParseOk(JNum(IF neg THEN 0 - d.n ELSE d.n), d.next)

ScanLiteral(str, i, word, v) ==
    IF i + Len(word) - 1 <= Len(str) /\ SubSeq(str, i, i + Len(word) - 1) = word
    THEN ParseOk(v, i + Len(word))
    ELSE ParseFail

RECURSIVE ParseValue(_, _), ParseMembers(_, _, _), ParseElements(_, _, _)
\* one JSON value, leading whitespace skipped
ParseValue(str, i0) ==
    LET i == SkipWs(str, i0)
    IN  IF i > Len(str) THEN ParseFail
        ELSE CASE str[i] = "\"" ->
                    LET r == ScanString(str, i + 1, <<>>)
                    IN  IF r.ok THEN ParseOk(JStr(r.v), r.next) ELSE ParseFail
               [] str[i] = "{" ->
                    LET j == SkipWs(str, i + 1)
                    IN  IF j <= Len(str) /\ str[j] = "}"
                        THEN ParseOk(JObj(EmptyFields), j + 1)
                        ELSE ParseMembers(str, j, EmptyFields)
               [] str[i] = "[" ->
                    LET j == SkipWs(str, i + 1)
                    IN  IF j <= Len(str) /\ str[j] = "]"
                        THEN ParseOk(JArr(<<>>), j + 1)
                        ELSE ParseElements(str, j, <<>>)
               [] str[i] = "t" -> ScanLiteral(str, i, <<"t", "r", "u", "e">>, JBool(TRUE))
               [] str[i] = "f" -> ScanLiteral(str, i, <<"f", "a", "l", "s", "e">>, JBool(FALSE))
               [] str[i] = "n" -> ScanLiteral(str, i, <<"n", "u", "l", "l">>, JNull)
               [] str[i] = "-" \/ IsDigit(str[i]) -> ScanNumber(str, i)
               [] OTHER -> ParseFail

\* the members of an object from position i (whitespace skipped): a key in
\* quotes, a colon, a value, then a comma or the closing brace; a key given
\* twice keeps its last value
ParseMembers(str, i, fields) ==
    IF i > Len(str) \/ str[i] # "\"" THEN ParseFail
    ELSE LET k == ScanString(str, i + 1, <<>>)
         IN  IF ~k.ok THEN ParseFail
             ELSE LET c == SkipWs(str, k.next)
                  IN  IF c > Len(str) \/ str[c] # ":" THEN ParseFail
                      ELSE LET v == ParseValue(str, c + 1)
                           IN  IF ~v.ok THEN ParseFail
                               ELSE LET e == SkipWs(str, v.next)
                                        got == (k.v :> v.v) @@ fields
                                    IN  IF e > Len(str) THEN ParseFail
                                        ELSE IF str[e] = "}" THEN ParseOk(JObj(got), e + 1)
                                        ELSE IF str[e] = ","
                                             THEN ParseMembers(str, SkipWs(str, e + 1), got)
                                        ELSE ParseFail

\* the elements of an array from position i
ParseElements(str, i, items) ==
    LET v == ParseValue(str, i)
    IN  IF ~v.ok THEN ParseFail
        ELSE LET e == SkipWs(str, v.next)
                 got == Append(items, v.v)
             IN  IF e > Len(str) THEN ParseFail
                 ELSE IF str[e] = "]" THEN ParseOk(JArr(got), e + 1)
                 ELSE IF str[e] = "," THEN ParseElements(str, e + 1, got)
                 ELSE ParseFail

\* json.loads: one value and nothing but whitespace after it; ok = FALSE is
\* json.JSONDecodeError
json_loads(str) ==
    LET r == ParseValue(str, 1)
    IN  IF r.ok /\ SkipWs(str, r.next) > Len(str)
        THEN [ok |-> TRUE, v |-> r.v]
        ELSE [ok |-> FALSE]

(* ------------------------------------------------------------------ *)
(* The AI moderation client: check_content_with_deepseek               *)
(* ------------------------------------------------------------------ *)
KeyPass == <<"p", "a", "s", "s">>
KeyReason == <<"r", "e", "a", "s", "o", "n">>
KeyChoices == <<"c", "h", "o", "i", "c", "e", "s">>
KeyMessage == <<"m", "e", "s", "s", "a", "g", "e">>
KeyContent == <<"c", "o", "n", "t", "e", "n", "t">>
Fence == <<"U+0060", "U+0060", "U+0060">>
FenceJson == <<"U+0060", "U+0060", "U+0060", "j", "s", "o", "n">>

\* str.split(sep) for a one-character separator
RECURSIVE split(_, _)
split(str, sep) ==
    LET at == {i \in 1..Len(str) : str[i] = sep}
    IN  IF at = {} THEN <<str>>
        ELSE LET i == CHOOSE a \in at : \A b \in at : a <= b
             IN  <<SubSeq(str, 1, i - 1)>> \o split(SubSeq(str, i + 1, Len(str)), sep)

\* sep.join(lines)
RECURSIVE join(_, _)
join(sep, lines) ==
    IF lines = <<>> THEN <<>>
    ELSE IF Len(lines) = 1 THEN lines[1]
    ELSE lines[1] \o <<sep>> \o join(sep, Tail(lines))

\* dict.get(key, default) on a JSON object
dict_get(obj, key, default) ==
    IF key \in DOMAIN obj.fields THEN obj.fields[key] ELSE default

\* the reply text out of the response body:
\*   result.get("choices", [{}])[0].get("message", {}).get("content", "")
\* followed by reply.strip(); raised = TRUE is the AttributeError, IndexError,
\* KeyError or TypeError any step raises on a value of another shape
extract_reply(result) ==
    IF result.t # "obj" THEN [raised |-> TRUE]
    ELSE LET choices == dict_get(result, KeyChoices, JArr(<<JObj(EmptyFields)>>))
         IN  IF choices.t # "arr" \/ choices.items = <<>> THEN [raised |-> TRUE]
             ELSE LET first == choices.items[1]
                  IN  IF first.t # "obj" THEN [raised |-> TRUE]
                      ELSE LET message == dict_get(first, KeyMessage, JObj(EmptyFields))
                           IN  IF message.t # "obj" THEN [raised |-> TRUE]
                               ELSE LET content == dict_get(message, KeyContent, JStr(<<>>))
                                    IN  IF content.t # "str" THEN [raised |-> TRUE]
                                        ELSE [raised |-> FALSE, reply |-> strip(content.s)]

\* the markdown fence: when the reply starts with three backquotes, its
\* first line goes, and its last line too when that line is the fence alone
\* or the fence followed by json
strip_code_fence(reply) ==
    IF startswith(reply, Fence)
    THEN LET lines == split(reply, "\n")
             inner == IF strip(lines[Len(lines)]) \in {Fence, FenceJson}
                      THEN SubSeq(lines, 2, Len(lines) - 1)
                      ELSE SubSeq(lines, 2, Len(lines))
         IN  strip(join("\n", inner))
    ELSE reply

\* re.search(r'\{[^{}]*\}', reply).group(): the leftmost "{" whose next
\* brace is a "}", up to that brace; the reply itself when nothing matches
json_match(reply) ==
    LET braces == {i \in 1..Len(reply) : reply[i] \in {"{", "}"}}
        nextBrace(i) == CHOOSE j \in braces : j > i /\ \A k \in braces : k > i => j <= k
        starts == {i \in braces : /\ reply[i] = "{"
                                  /\ \E j \in braces : j > i
                                  /\ reply[nextBrace(i)] = "}"}
    IN  IF starts = {} THEN reply
        ELSE LET i == CHOOSE a \in starts : \A b \in starts : a <= b
             IN  SubSeq(reply, i, nextBrace(i))

\* bool(v)
py_bool(v) ==
    CASE v.t = "bool" -> v.b
      [] v.t = "null" -> FALSE
      [] v.t = "num" -> v.n # 0
      [] v.t = "str" -> v.s # <<>>
      [] v.t = "arr" -> v.items # <<>>
      [] v.t = "obj" -> DOMAIN v.fields # {}

\* the decimal digits of a natural number
RECURSIVE NatDigits(_)
NatDigits(n) ==
    IF n < 10 THEN <<DigitChars[n + 1]>>
    ELSE NatDigits(n \div 10) \o <<DigitChars[(n % 10) + 1]>>

\* str(v) for the values a reason field can hold.  The object the client
\* parses has no brace inside it, so no field of it is an object; a list
\* prints its elements by repr, which the model's replies do not use.
py_str(v) ==
    CASE v.t = "str" -> v.s
      [] v.t = "null" -> <<"N", "o", "n", "e">>
      [] v.t = "bool" -> IF v.b THEN <<"T", "r", "u", "e">> ELSE <<"F", "a", "l", "s", "e">>
      [] v.t = "num" -> IF v.n < 0 THEN <<"-">> \o NatDigits(0 - v.n) ELSE NatDigits(v.n)
      [] v.t = "arr" -> IF v.items = <<>> THEN <<"[", "]">> ELSE <<"[", ".", ".", ".", "]">>
      [] v.t = "obj" -> <<"{", ".", ".", ".", "}">>

TruthyStrings == {<<"t", "r", "u", "e">>, <<"1">>, <<"y", "e", "s">>}

Verdict(is_pass, reason) == [is_pass |-> is_pass, reason |-> reason]
\* the value every failure path returns:  return True, ""
DefaultAllow == Verdict(TRUE, <<>>)

\* verdict_of with the str pass compared as it is written
verdict_of_case_sensitive(data) ==
    LET is_pass == dict_get(data, KeyPass, JBool(TRUE))
        reason == dict_get(data, KeyReason, JStr(<<>>))
        as_bool == IF is_pass.t = "str"
                   THEN is_pass.s \in TruthyStrings
                   ELSE py_bool(is_pass)
    IN  Verdict(as_bool, py_str(reason))

\* from the parsed object to the verdict: pass defaults to True, reason to
\* "", a str pass is compared to "true", "1", "yes" in lower case
verdict_of(data) ==
    LET is_pass == dict_get(data, KeyPass, JBool(TRUE))
        reason == dict_get(data, KeyReason, JStr(<<>>))
        as_bool == IF is_pass.t = "str"
                   THEN lower(is_pass.s) \in TruthyStrings
                   ELSE py_bool(is_pass)
    IN  Verdict(as_bool, py_str(reason))

\* the reply text to the verdict: fence, regex, json.loads, the dict test
parse_reply(reply) ==
    LET unfenced == strip_code_fence(reply)
        candidate == json_match(unfenced)
        data == json_loads(candidate)
    IN  IF ~data.ok THEN DefaultAllow
        ELSE IF data.v.t # "obj" THEN DefaultAllow
        ELSE verdict_of(data.v)

\* What the body of the try block does with a response: Raise is an
\* exception leaving the block, Return(v) its return value.
Raise(exc) == [raised |-> TRUE, exc |-> exc]
Return(v) == [raised |-> FALSE, value |-> v]

\* An HTTP exchange ends in httpx.TimeoutException, in another transport
\* exception, or in a response with a status code and a body; the body is
\* unparseable (empty, or not JSON) or the JSON value response.json() gives.
try_body(outcome) ==
    CASE outcome.kind = "timeout" -> Raise("TimeoutException")
      [] outcome.kind = "error" -> Raise("Exception")
      [] outcome.kind = "response" ->
            IF outcome.status_code # 200 THEN Return(DefaultAllow)
            ELSE IF ~outcome.body.valid THEN Raise("Exception")
            ELSE LET e == extract_reply(outcome.body.json)
                 IN  IF e.raised THEN Raise("Exception")
                     ELSE Return(parse_reply(e.reply))

\* on_exception without the clause  except Exception
on_exception_timeout_only(exc) ==
    CASE exc = "TimeoutException" -> Return(DefaultAllow)
      [] OTHER -> Raise(exc)

\* the two except clauses of check_content_with_deepseek
on_exception(exc) ==
    CASE exc = "TimeoutException" -> Return(DefaultAllow)
      [] OTHER -> Return(DefaultAllow)

\* check_content_with_deepseek once the request is answered
check_content_result(outcome) ==
    LET b == try_body(outcome)
    IN  IF b.raised THEN on_exception(b.exc) ELSE b

(* ------------------------------------------------------------------ *)
(* The state of the process and of its collaborators                   *)
(* ------------------------------------------------------------------ *)
VARIABLES
    _redis_client,       \* the cached handle: "None" or "client"
    _redis_available,    \* the availability flag of the shared store
    _local_daily_calls,  \* the in-process counter {"date": ..., "count": ...}
    redis_store,         \* the shared store: per date, the counter key
                         \* moderation:daily_count:<date> and its expiry
    today,               \* date.today()
    settings,            \* what get_settings() returns
    comments,            \* the comments table, by comment id
    tasks,               \* the moderate_comment coroutine of each comment
    client_call,         \* one call of the AI client, taken on its own
    response,            \* the last response a comments route returned
    comment_likes,       \* the comment_likes table: rows per comment and IP
    like_requests        \* the toggle_like_comment requests in flight

vars == <<_redis_client, _redis_available, _local_daily_calls, redis_store,
          today, settings, comments, tasks, client_call, response,
          comment_likes, like_requests>>

Dates == 1..MaxDate
\* the date field of _local_daily_calls before its first use
NoDate == 0

\* the position of a coroutine: the await it is suspended at
PcCreated == "created"          \* scheduled by create_task, not started
PcCheckPing == "check_ping"     \* _check_daily_limit > get_redis > ping()
PcCheckGet == "check_get"       \* _check_daily_limit > r.get(key)
PcIncrPing == "incr_ping"       \* _increment_api_calls > get_redis > ping()
PcIncrIncr == "incr_incr"       \* _increment_api_calls > r.incr(key)
PcIncrExpire == "incr_expire"   \* _increment_api_calls > r.expire(key, 90000)
PcHttp == "http"                \* check_content_with_deepseek > client.post
PcDb == "db"                    \* _update_comment_status > execute, commit
PcDone == "done"                \* the coroutine has returned

\* What the actions below read and write, as one record, so that the code a
\* coroutine runs between two suspensions composes as functions do.
Memory ==
    [client |-> _redis_client, available |-> _redis_available,
     local |-> _local_daily_calls, store |-> redis_store,
     comments |-> comments, tasks |-> tasks]

Commit(m) ==
    /\ _redis_client' = m.client
    /\ _redis_available' = m.available
    /\ _local_daily_calls' = m.local
    /\ redis_store' = m.store
    /\ comments' = m.comments
    /\ tasks' = m.tasks
    /\ UNCHANGED <<today, settings, client_call, response,
                   comment_likes, like_requests>>

\* history of a run: the calls it made and what they answered, in order
Log(m, c, event) == [m EXCEPT !.tasks[c].trace = Append(@, event)]
Goto(m, c, pc) == [m EXCEPT !.tasks[c].pc = pc]
Count(trace, event) == Cardinality({i \in DOMAIN trace : trace[i] = event})

(* ------------------------------------------------------------------ *)
(* _update_comment_status                                              *)
(* ------------------------------------------------------------------ *)
\* the call: the UPDATE is sent and the coroutine waits for the database
_update_comment_status(m, c, status, reason) ==
    Goto([Log(m, c, "sink") EXCEPT !.tasks[c].status = status,
                                    !.tasks[c].reason = reason], c, PcDb)

\* update_row that also appends to the reason already stored
update_row_appends(m, c) ==
    IF m.comments[c].stored
    THEN [m EXCEPT !.comments[c].moderation_status = m.tasks[c].status,
                   !.comments[c].moderation_reason =
                        IF m.tasks[c].reason.isNone THEN @
                        ELSE Some(@.s \o m.tasks[c].reason.s)]
    ELSE m

\* the UPDATE with no WHERE clause: every row of the table is written
update_row_no_where(m, c) ==
    [m EXCEPT !.comments = [d \in DOMAIN m.comments |->
                               IF m.comments[d].stored
                               THEN [m.comments[d] EXCEPT
                                        !.moderation_status = m.tasks[c].status,
                                        !.moderation_reason = m.tasks[c].reason]
                               ELSE m.comments[d]]]

\* the UPDATE ... WHERE id = comment_id and its commit: a row that is no
\* longer in the table matches nothing, and nothing is raised
update_row(m, c) ==
    IF m.comments[c].stored
    THEN [m EXCEPT !.comments[c].moderation_status = m.tasks[c].status,
                   !.comments[c].moderation_reason = m.tasks[c].reason]
    ELSE m

\* _update_comment_status_return with the pipeline started again
_update_comment_status_return_reruns(m, c, ok) ==
    Goto(IF ok THEN update_row(m, c) ELSE Log(m, c, "sink_failed"), c, PcCreated)

\* _update_comment_status_return with the UPDATE sent again on a failure
_update_comment_status_return_retries(m, c, ok) ==
    IF ok THEN Goto(update_row(m, c), c, PcDone)
    ELSE _update_comment_status(Log(m, c, "sink_failed"), c,
                                m.tasks[c].status, m.tasks[c].reason)

\* the database answers: the row is written, or the exception is logged
\* and swallowed; either way _update_comment_status and the run return
_update_comment_status_return(m, c, ok) ==
    Goto(IF ok THEN update_row(m, c) ELSE Log(m, c, "sink_failed"), c, PcDone)

(* ------------------------------------------------------------------ *)
(* moderate_comment, from the end backwards                            *)
(* ------------------------------------------------------------------ *)
\* finalize_verdict with the reason passed on whatever the verdict
finalize_verdict_keeps_reason(m, c, v) ==
    LET got == [m EXCEPT !.tasks[c].verdict = v]
    IN  IF v.is_pass
        THEN _update_comment_status(Log(got, c, "verdict:pass"), c, "approved",
                                    Some(v.reason))
        ELSE _update_comment_status(Log(got, c, "verdict:reject"), c, "rejected",
                                    Some(v.reason))

\* lines 310-316: the verdict decides the status; the reason is kept only
\* on rejection
finalize_verdict(m, c, v) ==
    LET got == [m EXCEPT !.tasks[c].verdict = v]
    IN  IF v.is_pass
        THEN _update_comment_status(Log(got, c, "verdict:pass"), c, "approved", NoneVal)
        ELSE _update_comment_status(Log(got, c, "verdict:reject"), c, "rejected",
                                    Some(v.reason))

\* check_content_with_deepseek with the POST sent whatever the credential
check_content_with_deepseek_always_posts(m, c) ==
    Goto(Log(Log(m, c, "classify"), c, "post"), c, PcHttp)

\* check_content_with_deepseek up to its first await: without a credential
\* it returns (True, "") at once, else the POST is sent
check_content_with_deepseek(m, c) ==
    LET called == Log(m, c, "classify")
    IN  IF ~settings.DEEPSEEK_API_KEY
        THEN finalize_verdict(called, c, DefaultAllow)
        ELSE Goto(Log(called, c, "post"), c, PcHttp)

\* check_content_with_deepseek_return with the increment taken back when
\* the request raised
check_content_with_deepseek_return_refunds(m, c, outcome) ==
    LET res == check_content_result(outcome)
        back == [m EXCEPT !.store = [d \in DOMAIN m.store |->
                                        [m.store[d] EXCEPT !.count = IF @ > 0 THEN @ - 1 ELSE 0]],
                          !.local.count = IF @ > 0 THEN @ - 1 ELSE 0]
    IN  finalize_verdict(IF try_body(outcome).raised THEN back ELSE m, c, res.value)

\* the answer of the endpoint, through the parsing and the except clauses
check_content_with_deepseek_return(m, c, outcome) ==
    LET res == check_content_result(outcome)
    IN  IF res.raised
        THEN Goto(Log(m, c, "crashed"), c, PcDone)
        ELSE finalize_verdict(m, c, res.value)

\* line 305 returns into line 306
after_increment(m, c, current_count) ==
    check_content_with_deepseek([m EXCEPT !.tasks[c].current_count = current_count,
                                          !.tasks[c].key = NoDate,
                                          !.tasks[c].count = 0], c)

\* reset_local with the count carried over to the new date
reset_local_keeps_count(local) == [local EXCEPT !.date = today]

\* lines 129-136: the in-process counter, reset when the date has changed
reset_local(local) ==
    IF local.date # today THEN [date |-> today, count |-> 0] ELSE local

_increment_api_calls_local(m, c) ==
    LET fresh == reset_local(m.local)
        bumped == [fresh EXCEPT !.count = @ + 1]
    IN  after_increment(Log([m EXCEPT !.local = bumped], c, "local+1"), c, bumped.count)

\* get_redis that connects again whenever no handle is cached
get_redis_reconnects(m, c) ==
    IF m.client = "None"
    THEN [m |-> Log([m EXCEPT !.client = "client", !.available = TRUE], c, "connect"),
          r |-> "None", ping |-> TRUE]
    ELSE [m |-> m, r |-> m.client, ping |-> FALSE]

\* get_redis up to its first await.  ping = TRUE: the handle was just
\* created and cached, and the coroutine waits for ping()
get_redis(m, c) ==
    IF ~m.available THEN [m |-> m, r |-> "None", ping |-> FALSE]
    ELSE IF m.client = "None"
         THEN [m |-> Log([m EXCEPT !.client = "client"], c, "connect"),
               r |-> "None", ping |-> TRUE]
    ELSE [m |-> m, r |-> m.client, ping |-> FALSE]

\* get_redis_return that clears the flag and keeps the cached handle
get_redis_return_keeps_handle(m, c, ok) ==
    IF ok THEN [m |-> m, r |-> m.client]
    ELSE [m |-> Log([m EXCEPT !.available = FALSE], c, "connect_failed"),
          r |-> "None"]

\* ping() answers: the cached handle is returned, or the flag is cleared,
\* the handle dropped and None returned
get_redis_return(m, c, ok) ==
    IF ok THEN [m |-> m, r |-> m.client]
    ELSE [m |-> Log([m EXCEPT !.available = FALSE, !.client = "None"], c, "connect_failed"),
          r |-> "None"]

\* lines 118-122: with a handle the INCR is sent on today's key
_increment_api_calls_with(m, c, r) ==
    IF r # "None"
    THEN Goto([Log(m, c, "redis_incr") EXCEPT !.tasks[c].key = today], c, PcIncrIncr)
    ELSE _increment_api_calls_local(m, c)

_increment_api_calls(m, c) ==
    LET g == get_redis(Log(m, c, "incr"), c)
    IN  IF g.ping THEN Goto(g.m, c, PcIncrPing)
        ELSE _increment_api_calls_with(g.m, c, g.r)

\* the INCR made only while the counter is below the cap, as one step with
\* the test; at the cap the comment is approved without a call
_increment_api_calls_incr_return_capped(m, c, ok) ==
    LET key == m.tasks[c].key
    IN  IF ok /\ m.store[key].count >= settings.MODERATION_DAILY_LIMIT
        THEN _update_comment_status(m, c, "approved", NoneVal)
        ELSE IF ok
        THEN LET count == m.store[key].count + 1
                 stored == [m EXCEPT !.store[key].count = count,
                                     !.tasks[c].count = count]
             IN  Goto(Log(Log(stored, c, "shared+1"), c, "redis_expire"), c, PcIncrExpire)
        ELSE _increment_api_calls_local(Log(m, c, "incr_failed"), c)

\* INCR answers: the server has added one and the EXPIRE is sent, or the
\* exception is logged and the in-process counter is used
_increment_api_calls_incr_return(m, c, ok) ==
    LET key == m.tasks[c].key
    IN  IF ok
        THEN LET count == m.store[key].count + 1
                 stored == [m EXCEPT !.store[key].count = count,
                                     !.tasks[c].count = count]
             IN  Goto(Log(Log(stored, c, "shared+1"), c, "redis_expire"), c, PcIncrExpire)
        ELSE _increment_api_calls_local(Log(m, c, "incr_failed"), c)

\* EXPIRE answers: the key expires in 25 hours and the INCR's value is
\* returned, or the exception is logged and the in-process counter is used
_increment_api_calls_expire_return(m, c, ok) ==
    LET key == m.tasks[c].key
    IN  IF ok
        THEN after_increment([m EXCEPT !.store[key].ttl = REDIS_EXPIRE_SECONDS],
                             c, m.tasks[c].count)
        ELSE _increment_api_calls_local(Log(m, c, "expire_failed"), c)

\* after_check with the result of the quota check ignored
after_check_ignores_limit(m, c, under_limit) ==
    _increment_api_calls(Log(m, c, IF under_limit THEN "check:ok" ELSE "check:full"), c)

\* after_check that goes to the AI client before the increment
after_check_classifies_first(m, c, under_limit) ==
    IF ~under_limit
    THEN _update_comment_status(Log(m, c, "check:full"), c, "approved", NoneVal)
    ELSE check_content_with_deepseek(Log(m, c, "check:ok"), c)

\* lines 297-305: at the cap the comment is approved without a call, below
\* it the call is counted and made
after_check(m, c, under_limit) ==
    IF ~under_limit
    THEN _update_comment_status(Log(m, c, "check:full"), c, "approved", NoneVal)
    ELSE _increment_api_calls(Log(m, c, "check:ok"), c)

\* lines 106-112
_check_daily_limit_local(m, c) ==
    LET fresh == reset_local(m.local)
    IN  after_check(Log([m EXCEPT !.local = fresh], c, "local_read"), c,
                    fresh.count < settings.MODERATION_DAILY_LIMIT)

\* lines 96-100: with a handle the GET is sent on today's key
_check_daily_limit_with(m, c, r) ==
    IF r # "None"
    THEN Goto([Log(m, c, "redis_get") EXCEPT !.tasks[c].key = today], c, PcCheckGet)
    ELSE _check_daily_limit_local(m, c)

_check_daily_limit(m, c) ==
    LET g == get_redis(Log(m, c, "check"), c)
    IN  IF g.ping THEN Goto(g.m, c, PcCheckPing)
        ELSE _check_daily_limit_with(g.m, c, g.r)

\* _check_daily_limit with no except clause: the error of r.get leaves the
\* coroutine
_check_daily_limit_get_return_raises(m, c, ok) ==
    LET current == m.store[m.tasks[c].key].count
        returned == [m EXCEPT !.tasks[c].key = NoDate]
    IN  IF ok
        THEN after_check(returned, c, current < settings.MODERATION_DAILY_LIMIT)
        ELSE Goto(Log(Log(returned, c, "get_failed"), c, "crashed"), c, PcDone)

\* _check_daily_limit_get_return with a counter at the cap let through
_check_daily_limit_get_return_inclusive(m, c, ok) ==
    LET current == m.store[m.tasks[c].key].count
        returned == [m EXCEPT !.tasks[c].key = NoDate]
    IN  IF ok
        THEN after_check(returned, c, current <= settings.MODERATION_DAILY_LIMIT)
        ELSE _check_daily_limit_local(Log(returned, c, "get_failed"), c)

\* GET answers: an absent key counts as 0 and the count is compared with
\* the cap, or the exception is logged and the in-process counter is used
_check_daily_limit_get_return(m, c, ok) ==
    LET current == m.store[m.tasks[c].key].count
        returned == [m EXCEPT !.tasks[c].key = NoDate]
    IN  IF ok
        THEN after_check(returned, c, current < settings.MODERATION_DAILY_LIMIT)
        ELSE _check_daily_limit_local(Log(returned, c, "get_failed"), c)

\* lines 281-300: the switch, then the prefilter, then the quota check
moderate_comment(m, c) ==
    IF ~settings.MODERATION_ENABLED
    THEN Goto(Log(m, c, "disabled"), c, PcDone)
    ELSE IF ~contains_sensitive_words(m.tasks[c].content)
         THEN _update_comment_status(Log(m, c, "prefilter:miss"), c, "approved", NoneVal)
         ELSE _check_daily_limit(Log(m, c, "prefilter:hit"), c)

(* ------------------------------------------------------------------ *)
(* The answers of the AI endpoint                                      *)
(* ------------------------------------------------------------------ *)
Timeout == [kind |-> "timeout", status_code |-> 0, body |-> [valid |-> FALSE, json |-> JNull]]
TransportError == [kind |-> "error", status_code |-> 0, body |-> [valid |-> FALSE, json |-> JNull]]
\* a response whose body response.json() cannot parse (empty, HTML, text)
BadBody(status_code) ==
    [kind |-> "response", status_code |-> status_code, body |-> [valid |-> FALSE, json |-> JNull]]
JsonBody(status_code, json) ==
    [kind |-> "response", status_code |-> status_code, body |-> [valid |-> TRUE, json |-> json]]
\* the chat-completion body {"choices": [{"message": {"content": reply}}]}
Completion(reply) ==
    JsonBody(200, JObj(KeyChoices :> JArr(<<JObj(KeyMessage :> JObj(KeyContent :> JStr(reply)))>>)))

ReplyPass ==
    <<"{", "\"", "p", "a", "s", "s", "\"", ":", " ", "t", "r", "u", "e", ",", " ",
      "\"", "r", "e", "a", "s", "o", "n", "\"", ":", " ", "\"", "\"", "}">>
ReplyPassWithReason ==
    <<"{", "\"", "p", "a", "s", "s", "\"", ":", " ", "t", "r", "u", "e", ",", " ",
      "\"", "r", "e", "a", "s", "o", "n", "\"", ":", " ", "\"", "o", "k", "\"", "}">>
ReplyReject ==
    <<"{", "\"", "p", "a", "s", "s", "\"", ":", " ", "f", "a", "l", "s", "e", ",", " ",
      "\"", "r", "e", "a", "s", "o", "n", "\"", ":", " ", "\"", "s", "p", "a", "m", "\"", "}">>
ReplyProse == <<"l", "o", "o", "k", "s", " ", "f", "i", "n", "e">>

\* the answers a moderation run meets
HttpOutcomes ==
    <<Timeout, TransportError, BadBody(500), BadBody(200),
      Completion(ReplyPass), Completion(ReplyPassWithReason),
      Completion(ReplyReject), Completion(ReplyProse)>>

(* ------------------------------------------------------------------ *)
(* Replies and responses the AI client is given                        *)
(* ------------------------------------------------------------------ *)
\* the bare verdict object
RpBare ==
    <<"{", "\"", "p", "a", "s", "s", "\"", ":", " ", "f", "a", "l", "s", "e",
      ",", " ", "\"", "r", "e", "a", "s", "o", "n", "\"", ":", " ", "\"",
      "s", "p", "a", "m", "\"", "}">>
\* the same object in a json fence
RpFenced ==
    <<"U+0060", "U+0060", "U+0060", "j", "s", "o", "n", "\n", "{", "\"", "p",
      "a", "s", "s", "\"", ":", " ", "f", "a", "l", "s", "e", ",", " ", "\"",
      "r", "e", "a", "s", "o", "n", "\"", ":", " ", "\"", "s", "p", "a", "m",
      "\"", "}", "\n", "U+0060", "U+0060", "U+0060">>
\* in a fence with no language
RpFencedPlain ==
    <<"U+0060", "U+0060", "U+0060", "\n", "{", "\"", "p", "a", "s", "s",
      "\"", ":", " ", "f", "a", "l", "s", "e", ",", " ", "\"", "r", "e", "a",
      "s", "o", "n", "\"", ":", " ", "\"", "s", "p", "a", "m", "\"", "}",
      "\n", "U+0060", "U+0060", "U+0060">>
\* a fence that is never closed
RpFenceOpen ==
    <<"U+0060", "U+0060", "U+0060", "j", "s", "o", "n", "\n", "{", "\"", "p",
      "a", "s", "s", "\"", ":", " ", "f", "a", "l", "s", "e", ",", " ", "\"",
      "r", "e", "a", "s", "o", "n", "\"", ":", " ", "\"", "s", "p", "a", "m",
      "\"", "}">>
\* fence and object on one line: the only line is dropped
RpFenceOneLine ==
    <<"U+0060", "U+0060", "U+0060", "{", "\"", "p", "a", "s", "s", "\"", ":",
      " ", "f", "a", "l", "s", "e", ",", " ", "\"", "r", "e", "a", "s", "o",
      "n", "\"", ":", " ", "\"", "s", "p", "a", "m", "\"", "}", "U+0060",
      "U+0060", "U+0060">>
\* prose before and after
RpProseAround ==
    <<"S", "u", "r", "e", "!", " ", "{", "\"", "p", "a", "s", "s", "\"", ":",
      " ", "f", "a", "l", "s", "e", ",", " ", "\"", "r", "e", "a", "s", "o",
      "n", "\"", ":", " ", "\"", "s", "p", "a", "m", "\"", "}", " ", "h",
      "o", "p", "e", " ", "i", "t", " ", "h", "e", "l", "p", "s">>
\* surrounded by whitespace
RpPadded ==
    <<" ", " ", "{", "\"", "p", "a", "s", "s", "\"", ":", " ", "f", "a", "l",
      "s", "e", ",", " ", "\"", "r", "e", "a", "s", "o", "n", "\"", ":", " ",
      "\"", "s", "p", "a", "m", "\"", "}", "\n">>
\* the reason of scenario C
RpAdvert ==
    <<"{", "\"", "p", "a", "s", "s", "\"", ":", " ", "f", "a", "l", "s", "e",
      ",", " ", "\"", "r", "e", "a", "s", "o", "n", "\"", ":", " ", "\"",
      "U+5E7F", "U+544A", "U+4FE1", "U+606F", "\"", "}">>
RpPassTrue ==
    <<"{", "\"", "p", "a", "s", "s", "\"", ":", " ", "t", "r", "u", "e", ",",
      " ", "\"", "r", "e", "a", "s", "o", "n", "\"", ":", " ", "\"", "\"",
      "}">>
RpPassTrueReason ==
    <<"{", "\"", "p", "a", "s", "s", "\"", ":", " ", "t", "r", "u", "e", ",",
      " ", "\"", "r", "e", "a", "s", "o", "n", "\"", ":", " ", "\"", "o",
      "k", "\"", "}">>
RpRejectNoReason ==
    <<"{", "\"", "p", "a", "s", "s", "\"", ":", " ", "f", "a", "l", "s", "e",
      "}">>
\* pass as a string
RpYes ==
    <<"{", "\"", "p", "a", "s", "s", "\"", ":", " ", "\"", "y", "e", "s",
      "\"", "}">>
RpYesUpper ==
    <<"{", "\"", "p", "a", "s", "s", "\"", ":", " ", "\"", "Y", "E", "S",
      "\"", "}">>
RpOne ==
    <<"{", "\"", "p", "a", "s", "s", "\"", ":", " ", "\"", "1", "\"", "}">>
RpTrueStr ==
    <<"{", "\"", "p", "a", "s", "s", "\"", ":", " ", "\"", "T", "r", "u",
      "e", "\"", "}">>
RpNo ==
    <<"{", "\"", "p", "a", "s", "s", "\"", ":", " ", "\"", "n", "o", "\"",
      ",", " ", "\"", "r", "e", "a", "s", "o", "n", "\"", ":", " ", "\"",
      "x", "\"", "}">>
RpFalseStr ==
    <<"{", "\"", "p", "a", "s", "s", "\"", ":", " ", "\"", "f", "a", "l",
      "s", "e", "\"", "}">>
RpEmptyStr ==
    <<"{", "\"", "p", "a", "s", "s", "\"", ":", " ", "\"", "\"", "}">>
RpSpaceTrue ==
    <<"{", "\"", "p", "a", "s", "s", "\"", ":", " ", "\"", " ", "t", "r",
      "u", "e", "\"", "}">>
\* pass is null
RpNull ==
    <<"{", "\"", "p", "a", "s", "s", "\"", ":", " ", "n", "u", "l", "l", "}">>
\* pass is a number
RpZero ==
    <<"{", "\"", "p", "a", "s", "s", "\"", ":", " ", "0", "}">>
RpOneNum ==
    <<"{", "\"", "p", "a", "s", "s", "\"", ":", " ", "1", ",", " ", "\"",
      "r", "e", "a", "s", "o", "n", "\"", ":", " ", "5", "}">>
RpList ==
    <<"{", "\"", "p", "a", "s", "s", "\"", ":", " ", "[", "]", ",", " ",
      "\"", "r", "e", "a", "s", "o", "n", "\"", ":", " ", "n", "u", "l", "l",
      "}">>
\* no field at all
RpEmptyObj ==
    <<"{", "}">>
RpReasonOnly ==
    <<"{", "\"", "r", "e", "a", "s", "o", "n", "\"", ":", " ", "\"", "x",
      "\"", "}">>
\* a key given twice
RpTwice ==
    <<"{", "\"", "p", "a", "s", "s", "\"", ":", " ", "f", "a", "l", "s", "e",
      ",", " ", "\"", "p", "a", "s", "s", "\"", ":", " ", "t", "r", "u", "e",
      "}">>
\* the inner object is the match
RpNested ==
    <<"{", "\"", "a", "\"", ":", " ", "{", "\"", "p", "a", "s", "s", "\"",
      ":", " ", "f", "a", "l", "s", "e", "}", "}">>
\* prose and no JSON
RpProse ==
    <<"I", " ", "t", "h", "i", "n", "k", " ", "t", "h", "i", "s", " ", "i",
      "s", " ", "f", "i", "n", "e", ".">>
\* an empty reply
RpEmpty ==
    <<>>
\* the match is {b}
RpBraceInReason ==
    <<"{", "\"", "p", "a", "s", "s", "\"", ":", " ", "f", "a", "l", "s", "e",
      ",", " ", "\"", "r", "e", "a", "s", "o", "n", "\"", ":", " ", "\"",
      "a", "{", "b", "}", "c", "\"", "}">>
RpNotJson ==
    <<"{", "o", "o", "p", "s", "}">>
RpTrailingComma ==
    <<"{", "\"", "p", "a", "s", "s", "\"", ":", " ", "f", "a", "l", "s", "e",
      ",", "}">>
RpTypo ==
    <<"{", "\"", "p", "a", "s", "s", "\"", ":", " ", "t", "r", "u", "}">>
\* JSON that is not an object
RpTrue ==
    <<"t", "r", "u", "e">>
RpArray ==
    <<"[", "1", "]">>
RpString ==
    <<"\"", "t", "e", "x", "t", "\"">>
RpNumber ==
    <<"4", "2">>
RpNullLit ==
    <<"n", "u", "l", "l">>

\* an array around an object: the match is the object
RpWrapped ==
    <<"[", "{", "\"", "p", "a", "s", "s", "\"", ":", " ", "f", "a", "l",
      "s", "e", ",", " ", "\"", "r", "e", "a", "s", "o", "n", "\"", ":",
      " ", "\"", "s", "p", "a", "m", "\"", "}", "]">>
\* prose with a brace pair of its own before the object: the match is {json}
RpBraceProse ==
    <<"A", "s", " ", "{", "j", "s", "o", "n", "}", ":", " ", "{", "\"", "p",
      "a", "s", "s", "\"", ":", " ", "f", "a", "l", "s", "e", ",", " ",
      "\"", "r", "e", "a", "s", "o", "n", "\"", ":", " ", "\"", "s", "p",
      "a", "m", "\"", "}">>

\* One line per input of the client: the exchange, and the case it is.
\*   timeout, transport     the request raised
\*   status                 a status that is not 2xx
\*   status2xx              a 2xx status other than 200
\*   body                   200, the body empty or not JSON
\*   shape                  200, a JSON body that is no chat completion
\*   no_json                the text handed to json.loads does not parse
\*   not_object             no brace match, the reply parses and is no object
\*   object                 the brace match parses to an object
Input(mode, outcome) == [mode |-> mode, outcome |-> outcome]
ClientInputs == <<
    Input("timeout", Timeout),
    Input("transport", TransportError),
    Input("status", BadBody(500)),
    Input("status", BadBody(404)),
    Input("status", JsonBody(429, JObj(EmptyFields))),
    Input("status", JsonBody(503, Completion(RpBare).body.json)),
    Input("status2xx", JsonBody(201, Completion(RpBare).body.json)),
    Input("body", BadBody(200)),
    Input("shape", JsonBody(200, JObj(KeyChoices :> JArr(<<>>)))),
    Input("shape", JsonBody(200, JObj(KeyChoices :> JNull))),
    Input("shape", JsonBody(200, JArr(<<JNum(1)>>))),
    Input("shape", JsonBody(200, JObj(KeyChoices :> JArr(<<JObj(KeyMessage :> JObj(KeyContent :> JNull))>>)))),
    Input("no_json", JsonBody(200, JObj(EmptyFields))),
    Input("no_json", JsonBody(200, JObj(KeyChoices :> JArr(<<JObj(EmptyFields)>>)))),
    Input("object", Completion(RpBare)),
    Input("object", Completion(RpFenced)),
    Input("object", Completion(RpFencedPlain)),
    Input("object", Completion(RpFenceOpen)),
    Input("no_json", Completion(RpFenceOneLine)),
    Input("object", Completion(RpProseAround)),
    Input("object", Completion(RpPadded)),
    Input("object", Completion(RpAdvert)),
    Input("object", Completion(RpPassTrue)),
    Input("object", Completion(RpPassTrueReason)),
    Input("object", Completion(RpRejectNoReason)),
    Input("object", Completion(RpYes)),
    Input("object", Completion(RpYesUpper)),
    Input("object", Completion(RpOne)),
    Input("object", Completion(RpTrueStr)),
    Input("object", Completion(RpNo)),
    Input("object", Completion(RpFalseStr)),
    Input("object", Completion(RpEmptyStr)),
    Input("object", Completion(RpSpaceTrue)),
    Input("object", Completion(RpNull)),
    Input("object", Completion(RpZero)),
    Input("object", Completion(RpOneNum)),
    Input("object", Completion(RpList)),
    Input("object", Completion(RpEmptyObj)),
    Input("object", Completion(RpReasonOnly)),
    Input("object", Completion(RpTwice)),
    Input("object", Completion(RpNested)),
    Input("object", Completion(RpWrapped)),
    Input("no_json", Completion(RpBraceProse)),
    Input("no_json", Completion(RpProse)),
    Input("no_json", Completion(RpEmpty)),
    Input("no_json", Completion(RpBraceInReason)),
    Input("no_json", Completion(RpNotJson)),
    Input("no_json", Completion(RpTrailingComma)),
    Input("no_json", Completion(RpTypo)),
    Input("not_object", Completion(RpTrue)),
    Input("not_object", Completion(RpArray)),
    Input("not_object", Completion(RpString)),
    Input("not_object", Completion(RpNumber)),
    Input("not_object", Completion(RpNullLit)) >>

(* ------------------------------------------------------------------ *)
(* The likes of comments                                               *)
(* ------------------------------------------------------------------ *)
\* the client IPs that send like requests
MaxClients == 2
Clients == 1..MaxClients
\* the like requests that can be in flight together
MaxRequests == 2
\* the likes column is not taken above this
MaxLikeCount == 2
\* comment_likes has no unique key on (comment_id, client_ip): the table
\* is the number of rows of each pair
LikeKeys == (1..MaxComments) \X Clients
NoLikes == [k \in LikeKeys |-> 0]
\* a request slot: idle, or where the handler is suspended, with what it
\* has read: comment.likes and the like rows of its IP
LikeIdle == [pc |-> "idle", comment_id |-> 0, client_ip |-> 0, likes |-> 0, existing |-> 0]
NoLikeRequests == [r \in 1..MaxRequests |-> LikeIdle]

(* ------------------------------------------------------------------ *)
(* Initial state                                                       *)
(* ------------------------------------------------------------------ *)
\* the posts table: the posts that exist and are not soft-deleted
MaxPosts == 2
Posts == 1..MaxPosts
FirstPost == 1
\* a post id no post has
MissingPost == MaxPosts + 1
\* reply_to_id = NULL, replyToId = None
NoReply == 0
\* the length the reply previews are cut at
PREVIEW_LENGTH == 100
\* a response: the status code and the data of the ApiResponse (the list
\* of a listing, the one comment of a creation), with the request it
\* answers
Response(code, data, route, postId) ==
    [code |-> code, data |-> data, route |-> route, postId |-> postId]
\* no request made yet
NoResponse == Response(0, <<>>, "", 0)

\* no call of the client under way
ClientIdle ==
    [stage |-> "idle", input |-> 0, raised |-> FALSE, exc |-> "", value |-> DefaultAllow]

\* The shared counter outlives the process: at start today's key holds
\* whatever earlier processes left there.
NoKey == [count |-> 0, ttl |-> 0]
Init ==
    /\ _redis_client = "None"
    /\ _redis_available = TRUE
    /\ _local_daily_calls = [date |-> NoDate, count |-> 0]
    /\ today = 1
    /\ \E n \in 0..MODERATION_DAILY_LIMIT :
          redis_store = [d \in Dates |->
                            IF d = 1 /\ n > 0
                            THEN [count |-> n, ttl |-> REDIS_EXPIRE_SECONDS]
                            ELSE NoKey]
    /\ \E enabled \in BOOLEAN, has_key \in BOOLEAN :
          settings = [MODERATION_ENABLED |-> enabled,
                      DEEPSEEK_API_KEY |-> has_key,
                      MODERATION_DAILY_LIMIT |-> MODERATION_DAILY_LIMIT]
    /\ comments = <<>>
    /\ tasks = <<>>
    /\ client_call = ClientIdle
    /\ comment_likes = NoLikes
    /\ like_requests = NoLikeRequests
    /\ response = NoResponse

(* ------------------------------------------------------------------ *)
(* Actions                                                             *)
(* ------------------------------------------------------------------ *)
\* Comment (models.py): the columns the routes and the pipeline read and
\* write, with the column defaults; stored says the row is in the table
NewComment(content, postId, replyToId) ==
    [content |-> content, post_id |-> postId, reply_to_id |-> replyToId,
     likes |-> 0, is_deleted |-> FALSE, stored |-> TRUE,
     moderation_status |-> "pending", moderation_reason |-> NoneVal]

\* trigger_moderation with the run awaited inside the request
trigger_moderation_awaited(content) ==
    [pc |-> PcDone, content |-> content, status |-> "", reason |-> NoneVal,
     key |-> NoDate, count |-> 0, current_count |-> 0, verdict |-> DefaultAllow,
     trace |-> <<"disabled">>]

\* trigger_moderation: asyncio.create_task(moderate_comment(id, content))
trigger_moderation(content) ==
    [pc |-> PcCreated, content |-> content, status |-> "", reason |-> NoneVal,
     key |-> NoDate, count |-> 0, current_count |-> 0, verdict |-> DefaultAllow,
     trace |-> <<>>]

\* content[:100] + "..." of the reply previews
Preview(content) ==
    IF Len(content) > PREVIEW_LENGTH
    THEN SubSeq(content, 1, PREVIEW_LENGTH) \o <<".", ".", ".">>
    ELSE content

\* ReplyTo(id, author, content): the preview of the comment replied to
ReplyTo(id) == [id |-> id, content |-> Preview(comments[id].content)]
\* replyTo = None
NoReplyTo == [id |-> NoReply, content |-> <<>>]

\* lines 160-181: the comment replied to must be a row of the same post
\* that is not soft-deleted
reply_to_comment(postId, replyToId) ==
    /\ replyToId \in DOMAIN comments
    /\ comments[replyToId].stored
    /\ comments[replyToId].post_id = postId
    /\ ~comments[replyToId].is_deleted

\* CommentCreateResponse with the status of the comment in it
CommentCreateResponse_with_status(id, row) ==
    [id |-> id, postId |-> row.post_id, content |-> row.content,
     likes |-> row.likes, isLiked |-> FALSE,
     replyTo |-> IF row.reply_to_id = NoReply THEN NoReplyTo ELSE ReplyTo(row.reply_to_id),
     moderationStatus |-> row.moderation_status]

\* lines 219-233: the body of the 201 response
CommentCreateResponse(id, row) ==
    [id |-> id, postId |-> row.post_id, content |-> row.content,
     likes |-> row.likes, isLiked |-> FALSE,
     replyTo |-> IF row.reply_to_id = NoReply THEN NoReplyTo ELSE ReplyTo(row.reply_to_id)]

\* create_comment: 404 when the post or the comment replied to is missing;
\* else the row is committed with the column defaults, the moderation task
\* is scheduled and the 201 response is built, with no await in between
create_comment(content, postId, replyToId) ==
    /\ Len(comments) < MaxComments
    /\ IF postId \notin Posts
          \/ (replyToId # NoReply /\ ~reply_to_comment(postId, replyToId))
       THEN /\ response' = Response(404, <<>>, "create_comment", postId)
            /\ UNCHANGED <<comments, tasks>>
       ELSE LET id == Len(comments) + 1
                row == NewComment(content, postId, replyToId)
            IN  /\ comments' = Append(comments, row)
                /\ tasks' = Append(tasks, trigger_moderation(content))
                /\ response' = Response(201, <<CommentCreateResponse(id, row)>>,
                                         "create_comment", postId)
    /\ UNCHANGED <<_redis_client, _redis_available, _local_daily_calls,
                   redis_store, today, settings, client_call,
                   comment_likes, like_requests>>

\* the event loop starts the task
Begin(c) ==
    /\ tasks[c].pc = PcCreated
    /\ Commit(moderate_comment(Memory, c))

\* ping() answers inside _check_daily_limit or _increment_api_calls
PingReturn(c, ok) ==
    /\ tasks[c].pc \in {PcCheckPing, PcIncrPing}
    /\ LET g == get_redis_return(Memory, c, ok)
       IN  Commit(IF tasks[c].pc = PcCheckPing
                  THEN _check_daily_limit_with(g.m, c, g.r)
                  ELSE _increment_api_calls_with(g.m, c, g.r))

GetReturn(c, ok) ==
    /\ tasks[c].pc = PcCheckGet
    /\ Commit(_check_daily_limit_get_return(Memory, c, ok))

IncrReturn(c, ok) ==
    /\ tasks[c].pc = PcIncrIncr
    /\ Commit(_increment_api_calls_incr_return(Memory, c, ok))

ExpireReturn(c, ok) ==
    /\ tasks[c].pc = PcIncrExpire
    /\ Commit(_increment_api_calls_expire_return(Memory, c, ok))

HttpReturn(c, outcome) ==
    /\ tasks[c].pc = PcHttp
    /\ Commit(check_content_with_deepseek_return(Memory, c, outcome))

DbReturn(c, ok) ==
    /\ tasks[c].pc = PcDb
    /\ Commit(_update_comment_status_return(Memory, c, ok))

\* midnight
DayRollover ==
    /\ today < MaxDate
    /\ today' = today + 1
    /\ UNCHANGED <<_redis_client, _redis_available, _local_daily_calls,
                   redis_store, settings, comments, tasks, client_call, response,
                   comment_likes, like_requests>>

\* The pipeline reads the id and the body of a comment and nothing else of
\* it: here every comment is a top-level comment of the first post.
Next ==
    \/ \E content \in Contents : create_comment(content, FirstPost, NoReply)
    \/ \E c \in DOMAIN tasks : Begin(c)
    \/ \E c \in DOMAIN tasks, ok \in BOOLEAN : PingReturn(c, ok)
    \/ \E c \in DOMAIN tasks, ok \in BOOLEAN : GetReturn(c, ok)
    \/ \E c \in DOMAIN tasks, ok \in BOOLEAN : IncrReturn(c, ok)
    \/ \E c \in DOMAIN tasks, ok \in BOOLEAN : ExpireReturn(c, ok)
    \/ \E c \in DOMAIN tasks, i \in DOMAIN HttpOutcomes : HttpReturn(c, HttpOutcomes[i])
    \/ \E c \in DOMAIN tasks, ok \in BOOLEAN : DbReturn(c, ok)
    \/ DayRollover

Spec == Init /\ [][Next]_vars

\* The same program while the AI service is down: every request to it
\* times out or fails in transport.
AiDownOutcomes == <<Timeout, TransportError>>

NextAiDown ==
    \/ \E content \in Contents : create_comment(content, FirstPost, NoReply)
    \/ \E c \in DOMAIN tasks : Begin(c)
    \/ \E c \in DOMAIN tasks, ok \in BOOLEAN : PingReturn(c, ok)
    \/ \E c \in DOMAIN tasks, ok \in BOOLEAN : GetReturn(c, ok)
    \/ \E c \in DOMAIN tasks, ok \in BOOLEAN : IncrReturn(c, ok)
    \/ \E c \in DOMAIN tasks, ok \in BOOLEAN : ExpireReturn(c, ok)
    \/ \E c \in DOMAIN tasks, i \in DOMAIN AiDownOutcomes : HttpReturn(c, AiDownOutcomes[i])
    \/ \E c \in DOMAIN tasks, ok \in BOOLEAN : DbReturn(c, ok)
    \/ DayRollover

SpecAiDown == Init /\ [][NextAiDown]_vars

(* ------------------------------------------------------------------ *)
(* The AI client on its own: one request, its answer, the verdict      *)
(* ------------------------------------------------------------------ *)
PipelineVars == <<_redis_client, _redis_available, _local_daily_calls,
                  redis_store, today, settings, comments, tasks, response,
                  comment_likes, like_requests>>

\* the POST of line 186 is sent and will be answered as input i says
ClientPost(i) ==
    /\ client_call.stage = "idle"
    /\ settings.DEEPSEEK_API_KEY
    /\ client_call' = [client_call EXCEPT !.stage = "sent", !.input = i]
    /\ UNCHANGED PipelineVars

\* lines 205-256: the body of the try block runs on the answer
ClientTry ==
    /\ client_call.stage = "sent"
    /\ LET b == try_body(ClientInputs[client_call.input].outcome)
       IN  client_call' = [client_call EXCEPT
                              !.stage = "tried",
                              !.raised = b.raised,
                              !.exc = IF b.raised THEN b.exc ELSE "",
                              !.value = IF b.raised THEN DefaultAllow ELSE b.value]
    /\ UNCHANGED PipelineVars

\* lines 258-264: an exception meets the except clauses; the call returns
ClientReturn ==
    /\ client_call.stage = "tried"
    /\ LET r == IF client_call.raised
                THEN on_exception(client_call.exc)
                ELSE Return(client_call.value)
       IN  client_call' = [client_call EXCEPT
                              !.stage = "returned",
                              !.raised = r.raised,
                              !.exc = IF r.raised THEN r.exc ELSE "",
                              !.value = IF r.raised THEN DefaultAllow ELSE r.value]
    /\ UNCHANGED PipelineVars

NextClient ==
    \/ \E i \in DOMAIN ClientInputs : ClientPost(i)
    \/ ClientTry
    \/ ClientReturn

SpecClient == Init /\ [][NextClient]_vars

(* ------------------------------------------------------------------ *)
(* The comments table under the routes and the status sink             *)
(* ------------------------------------------------------------------ *)
\* base_query with no condition on moderation_status
base_query_all_statuses(postId) ==
    {c \in DOMAIN comments :
        /\ comments[c].stored
        /\ comments[c].post_id = postId
        /\ ~comments[c].is_deleted}

\* lines 60-64: the rows the listing selects
base_query(postId) ==
    {c \in DOMAIN comments :
        /\ comments[c].stored
        /\ comments[c].post_id = postId
        /\ ~comments[c].is_deleted
        /\ comments[c].moderation_status # "rejected"}

\* lines 67-70: likes desc then created_at desc, or created_at desc; ids
\* are given in the order of creation
Sorts == {"time", "likes"}
Before(a, b, sort) ==
    IF sort = "likes" /\ comments[a].likes # comments[b].likes
    THEN comments[a].likes > comments[b].likes
    ELSE a > b

RECURSIVE order_by(_, _)
order_by(rows, sort) ==
    IF rows = {} THEN <<>>
    ELSE LET first == CHOOSE a \in rows : \A b \in rows \ {a} : Before(a, b, sort)
         IN  <<first>> \o order_by(rows \ {first}, sort)

\* lines 93-104: the rows replied to, selected by id alone
reply_to_map(rows) ==
    {id \in DOMAIN comments :
        /\ comments[id].stored
        /\ \E c \in rows : comments[c].reply_to_id = id}

\* lines 109-119: one element of the list
CommentInList(c, map) ==
    [id |-> c, postId |-> comments[c].post_id, content |-> comments[c].content,
     likes |-> comments[c].likes,
     replyTo |-> IF comments[c].reply_to_id \in map
                 THEN ReplyTo(comments[c].reply_to_id) ELSE NoReplyTo]

\* get_comments: 404 when the post is missing, else the selected rows in
\* order, each with the preview of the comment it replies to.  The queries
\* run in one session and write nothing.
get_comments(postId, sort) ==
    /\ IF postId \notin Posts
       THEN response' = Response(404, <<>>, "get_comments", postId)
       ELSE LET rows == order_by(base_query(postId), sort)
                map == reply_to_map(base_query(postId))
            IN  response' = Response(200, [i \in DOMAIN rows |-> CommentInList(rows[i], map)],
                                     "get_comments", postId)
    /\ UNCHANGED <<_redis_client, _redis_available, _local_daily_calls, redis_store,
                   today, settings, comments, tasks, client_call,
                   comment_likes, like_requests>>

\* How far the run of a row has come: not started, suspended in the status
\* sink, or returned from it.
Progress == {"created", "sunk:approved", "sunk:rejected", "done:approved", "done:rejected"}
Spam == <<"s", "p", "a", "m">>
MaxLikes == 1

\* the run of row c taken that far by the operators of the pipeline
Advance(m, c, progress) ==
    IF progress = "created" THEN m
    ELSE LET sunk == IF progress \in {"sunk:approved", "done:approved"}
                     THEN _update_comment_status(m, c, "approved", NoneVal)
                     ELSE finalize_verdict(m, c, Verdict(FALSE, Spam))
         IN  IF progress \in {"done:approved", "done:rejected"}
             THEN _update_comment_status_return(sunk, c, TRUE)
             ELSE sunk

RECURSIVE AdvanceAll(_, _, _)
AdvanceAll(m, progress, c) ==
    IF c > Len(progress) THEN m
    ELSE AdvanceAll(Advance(m, c, progress[c]), progress, c + 1)

\* The rows a table can hold: any post, liked or not, replying to an older
\* row of its post or to none, soft-deleted or not, removed from the table
\* while its run is in flight or not; only a body with a lexicon term can
\* be on the way to rejected.
TableRows ==
    [content : Contents, post_id : Posts, likes : 0..MaxLikes, reply_to_id : 0..(MaxComments - 1),
     is_deleted : BOOLEAN, stored : BOOLEAN, progress : Progress]

TableRowOk(t, c) ==
    LET row == t[c]
    IN  /\ row.progress \in {"sunk:rejected", "done:rejected"} => row.content \in SensitiveContents
        /\ row.reply_to_id # NoReply =>
              /\ row.reply_to_id < c
              /\ t[row.reply_to_id].post_id = row.post_id
        /\ ~row.stored => row.progress \in {"created", "sunk:approved", "sunk:rejected"}
        /\ row.is_deleted => row.stored /\ row.likes = 0

TableMemory(t) ==
    [client |-> "None", available |-> TRUE,
     local |-> [date |-> NoDate, count |-> 0],
     store |-> [d \in Dates |-> NoKey],
     comments |-> [c \in DOMAIN t |->
                      [NewComment(t[c].content, t[c].post_id, t[c].reply_to_id)
                          EXCEPT !.likes = t[c].likes,
                                 !.is_deleted = t[c].is_deleted,
                                 !.stored = t[c].stored]],
     tasks |-> [c \in DOMAIN t |-> trigger_moderation(t[c].content)]]

\* A table with its runs where they are, and no request answered yet.
InitTable ==
    /\ _redis_client = "None"
    /\ _redis_available = TRUE
    /\ _local_daily_calls = [date |-> NoDate, count |-> 0]
    /\ today = 1
    /\ redis_store = [d \in Dates |-> NoKey]
    /\ settings = [MODERATION_ENABLED |-> TRUE, DEEPSEEK_API_KEY |-> TRUE,
                   MODERATION_DAILY_LIMIT |-> MODERATION_DAILY_LIMIT]
    /\ client_call = ClientIdle
    /\ comment_likes = NoLikes
    /\ like_requests = NoLikeRequests
    /\ response = NoResponse
    /\ \E n \in 0..MaxComments :
          \E t \in [1..n -> TableRows] :
             /\ \A c \in 1..n : TableRowOk(t, c)
             /\ LET m == AdvanceAll(TableMemory(t), [c \in 1..n |-> t[c].progress], 1)
                IN  comments = m.comments /\ tasks = m.tasks

NextTable ==
    \/ \E content \in Contents, postId \in Posts \cup {MissingPost},
          replyToId \in 0..MaxComments : create_comment(content, postId, replyToId)
    \/ \E postId \in Posts \cup {MissingPost}, sort \in Sorts : get_comments(postId, sort)
    \/ \E c \in DOMAIN tasks, ok \in BOOLEAN : DbReturn(c, ok)

SpecTable == InitTable /\ [][NextTable]_vars

(* ------------------------------------------------------------------ *)
(* Properties                                                          *)
(* ------------------------------------------------------------------ *)
Runs == DOMAIN tasks
Finished(c) == tasks[c].pc = PcDone
Made(c, event) == Count(tasks[c].trace, event)
HasTerm(c) == tasks[c].content \in SensitiveContents
\* calls of the AI client, HTTP requests sent, increments of a counter
AiCalls(c) == Made(c, "classify")
Requests(c) == Made(c, "post")
Increments(c) == Made(c, "shared+1") + Made(c, "local+1")
SinkCalls(c) == Made(c, "sink")
\* the one call of the status sink, with these arguments
FinalizedAs(c, status, reason) ==
    SinkCalls(c) = 1 /\ tasks[c].status = status /\ tasks[c].reason = reason
\* the run is not inside _increment_api_calls
OutsideIncrement(c) == tasks[c].pc \notin {PcIncrPing, PcIncrIncr, PcIncrExpire}

\* C1: a run for a comment with no lexicon term never calls the AI client
\* and never increments a quota counter, and it ends with the comment
\* finalized as approved with reason null.
C1_NoTermApproved ==
    \A c \in Runs :
        ~HasTerm(c) =>
            /\ AiCalls(c) = 0 /\ Requests(c) = 0 /\ Increments(c) = 0
            /\ Finished(c) => FinalizedAs(c, "approved", NoneVal)

\* C1 as the code has it: the same, for the runs that found moderation
\* enabled
C1_NoTermApprovedWhenEnabled ==
    \A c \in Runs :
        ~HasTerm(c) =>
            /\ AiCalls(c) = 0 /\ Requests(c) = 0 /\ Increments(c) = 0
            /\ (Finished(c) /\ Made(c, "disabled") = 0)
                  => FinalizedAs(c, "approved", NoneVal)

\* C2: a run for a comment with a lexicon term whose quota check found the
\* counter below the cap calls the AI client exactly once and makes exactly
\* one increment of a quota counter.
C2_OneCallOneIncrement ==
    \A c \in Runs :
        (Finished(c) /\ HasTerm(c) /\ Made(c, "check:ok") = 1) =>
            AiCalls(c) = 1 /\ Increments(c) = 1

\* C2 as the code has it: one call of the client, one call of
\* _increment_api_calls, and one increment, or two (one of each counter)
\* when the EXPIRE that follows a successful INCR failed
C2_OneCallOneOrTwoIncrements ==
    \A c \in Runs :
        (Finished(c) /\ HasTerm(c) /\ Made(c, "check:ok") = 1) =>
            /\ AiCalls(c) = 1 /\ Made(c, "incr") = 1
            /\ Made(c, "shared+1") <= 1 /\ Made(c, "local+1") <= 1
            /\ Increments(c) = 1 + Made(c, "expire_failed")

C4_DisabledApproved ==
    \A c \in Runs :
        (Finished(c) /\ ~settings.MODERATION_ENABLED) =>
            /\ FinalizedAs(c, "approved", NoneVal)
            /\ Made(c, "prefilter:hit") + Made(c, "prefilter:miss") = 0
            /\ Made(c, "check") = 0 /\ AiCalls(c) = 0

\* C4 as the code has it: the run stops at the switch, the status sink is
\* not called and the comment stays pending
C4_DisabledStaysPending ==
    \A c \in Runs :
        (Finished(c) /\ ~settings.MODERATION_ENABLED) =>
            /\ tasks[c].trace = <<"disabled">>
            /\ comments[c].moderation_status = "pending"
            /\ comments[c].moderation_reason = NoneVal

\* C5: every run calls the status sink exactly once, on every branch.
C5_SinkExactlyOnce ==
    \A c \in Runs : SinkCalls(c) <= 1 /\ (Finished(c) => SinkCalls(c) = 1)

\* the branch of the orchestrator that rejects
RejectBranch(c) ==
    /\ Made(c, "prefilter:hit") = 1 /\ Made(c, "check:ok") = 1
    /\ AiCalls(c) = 1 /\ ~tasks[c].verdict.is_pass

\* C6: a comment is finalized as rejected only by a run whose prefilter
\* matched, whose quota check passed and whose AI call returned pass =
\* false; a run that ends on any other branch finalizes it as approved.
C6_RejectedOnlyByVerdict ==
    \A c \in Runs :
        /\ (tasks[c].status = "rejected" \/ comments[c].moderation_status = "rejected")
              => RejectBranch(c)
        /\ (Finished(c) /\ ~RejectBranch(c)) => FinalizedAs(c, "approved", NoneVal)

\* C7: a comment has a reason only when it is rejected, and a rejected
\* comment has the reason the AI client returned.
C7_ReasonOnlyOnRejection ==
    \A c \in DOMAIN comments :
        /\ ~comments[c].moderation_reason.isNone
              => comments[c].moderation_status = "rejected"
        /\ comments[c].moderation_status = "rejected"
              => /\ ~tasks[c].verdict.is_pass
                 /\ comments[c].moderation_reason = Some(tasks[c].verdict.reason)

\* a comment approved on a pass = true that came with a reason, and a
\* comment rejected with the reason of its verdict
C7_Witness ==
    /\ \E c \in DOMAIN comments :
          /\ comments[c].moderation_status = "approved"
          /\ tasks[c].verdict.is_pass /\ tasks[c].verdict.reason # <<>>
          /\ comments[c].moderation_reason = NoneVal
    /\ \E c \in DOMAIN comments :
          /\ comments[c].moderation_status = "rejected"
          /\ comments[c].moderation_reason = Some(<<"s", "p", "a", "m">>)

\* the failure modes of the client
FailureModes == {"timeout", "transport", "status", "body", "no_json", "not_object"}

C9_IncrementThenRequest ==
    \A c \in Runs :
        (Increments(c) > 0 /\ OutsideIncrement(c)) => Requests(c) = 1

\* C9 as the code has it: the same, when the credential is configured
C9_IncrementThenRequestWithKey ==
    \A c \in Runs :
        (Increments(c) > 0 /\ OutsideIncrement(c) /\ settings.DEEPSEEK_API_KEY)
            => Requests(c) = 1

\* C10: once an operation on the shared store has failed (the connect, the
\* GET, the INCR or the EXPIRE) the store is marked unavailable.
C10_AnyErrorMarksUnavailable ==
    (\E c \in Runs : Made(c, "connect_failed") + Made(c, "get_failed")
                        + Made(c, "incr_failed") + Made(c, "expire_failed") > 0)
        => ~_redis_available

\* C10 as the code has it: only a failed connect clears the flag
C10_ConnectErrorMarksUnavailable ==
    (\E c \in Runs : Made(c, "connect_failed") > 0) <=> ~_redis_available

\* C11: the availability flag is true as long as no run has started, and
\* once it is false no step makes it true again.
C11_FlagOneWay ==
    [][/\ (\A c \in Runs : tasks[c].pc = PcCreated) => _redis_available
       /\ ~_redis_available => ~_redis_available']_vars

\* the flag is false and a run has gone on to use the in-process counter
C11_Witness ==
    /\ ~_redis_available
    /\ \E c \in Runs : Made(c, "connect_failed") = 0 /\ Made(c, "local+1") = 1

\* the runs that log this event in the step taken
Logging(event) ==
    {c \in Runs : Count(tasks'[c].trace, event) > Count(tasks[c].trace, event)}

\* C12: once the flag is false no quota operation that starts opens a
\* connection or sends a GET or an INCR; the in-process counter grows by
\* one with each increment made on its date, and restarts from zero, at
\* today's date, in the first quota operation after the date has changed.
C12_UnavailableStaysLocal ==
    [][/\ ~_redis_available =>
              Logging("connect") \cup Logging("redis_get") \cup Logging("redis_incr") = {}
       /\ _local_daily_calls'.count =
              (IF _local_daily_calls'.date = _local_daily_calls.date
               THEN _local_daily_calls.count ELSE 0)
              + Cardinality(Logging("local+1"))
       /\ _local_daily_calls'.date # _local_daily_calls.date =>
              /\ _local_daily_calls'.date = today
              /\ Logging("local_read") \cup Logging("local+1") # {}
       /\ (Logging("local_read") \cup Logging("local+1") # {}) =>
              _local_daily_calls'.date = today]_vars

\* the store is marked unavailable and the in-process counter has counted
\* two increments on one date; or one, on the second date, after one made
\* the day before
C12_Witness ==
    /\ ~_redis_available
    /\ \/ _local_daily_calls.count = 2
       \/ /\ _local_daily_calls = [date |-> 2, count |-> 1]
          /\ \A c \in Runs : Made(c, "local+1") = 1
          /\ Len(tasks) = 2

\* the counter a quota check reads in the step in which it returns: the
\* in-process counter of today's date, or the key the GET was sent for
CounterRead(c) ==
    IF c \in Logging("local_read")
    THEN IF _local_daily_calls.date = today THEN _local_daily_calls.count ELSE 0
    ELSE redis_store[tasks[c].key].count

\* C13: the quota check returns true exactly when the counter it reads is
\* strictly below the cap; an absent counter reads 0 and a counter equal to
\* the cap yields false.
C13_CheckIffBelowCap ==
    [][\A c \in Runs :
          /\ c \in Logging("check:ok") => CounterRead(c) < settings.MODERATION_DAILY_LIMIT
          /\ c \in Logging("check:full") => CounterRead(c) >= settings.MODERATION_DAILY_LIMIT
          /\ (c \in Logging("local_read")
                 \/ (tasks[c].pc = PcCheckGet /\ tasks'[c].pc # PcCheckGet))
                => c \in Logging("check:ok") \cup Logging("check:full")]_vars

\* a check that read the shared counter equal to the cap and returned
\* false, and a check that found no key and returned true
C13_Witness ==
    /\ today = 1
    /\ \E c \in Runs :
          /\ Made(c, "redis_get") = 1 /\ Made(c, "get_failed") = 0
          /\ Made(c, "check:full") = 1
          /\ redis_store[1].count = settings.MODERATION_DAILY_LIMIT
    /\ \E c \in Runs :
          /\ Made(c, "redis_get") = 1 /\ Made(c, "get_failed") = 0
          /\ Made(c, "check:ok") = 1

\* the runs whose call of _increment_api_calls has returned; its value is
\* in current_count
Recorded == {c \in Runs : Made(c, "incr") = 1 /\ OutsideIncrement(c)}
\* by how much the counter that the quota operations now read has grown
Grown ==
    IF _redis_available
    THEN Cardinality({c \in Runs : Made(c, "shared+1") = 1})
    ELSE IF _local_daily_calls.date = today THEN _local_daily_calls.count ELSE 0
\* no run is inside _increment_api_calls
NoneIncrementing == \A c \in Runs : OutsideIncrement(c)

\* C14: when N runs have each completed one increment on one date, today's
\* counter has grown by N, and the values the increments returned are
\* pairwise distinct.
C14_NoIncrementLost ==
    (today = 1 /\ NoneIncrementing) =>
        /\ Grown = Cardinality(Recorded)
        /\ \A c, d \in Recorded :
              c # d => tasks[c].current_count # tasks[d].current_count

\* C14 as the code has it: the same, when every increment went to one and
\* the same counter (no INCR or EXPIRE failed, and the shared counter was
\* not raised before the store was marked unavailable)
C14_NoIncrementLostOnOneCounter ==
    (/\ today = 1 /\ NoneIncrementing
     /\ \A c \in Runs : Made(c, "incr_failed") + Made(c, "expire_failed") = 0
     /\ ~_redis_available => \A c \in Runs : Made(c, "shared+1") = 0) =>
        /\ Grown = Cardinality(Recorded)
        /\ \A c, d \in Recorded :
              c # d => tasks[c].current_count # tasks[d].current_count

Terminal == {"approved", "rejected"}

C16_RunsEndTerminal ==
    \A c \in Runs : Finished(c) => comments[c].moderation_status \in Terminal

\* C16 as the code has it: the same for the runs that found moderation
\* enabled and whose status update did not fail, whatever the quota store
\* and the AI service did
C16_RunsEndTerminalWhenWritten ==
    \A c \in Runs :
        (Finished(c) /\ Made(c, "disabled") = 0 /\ Made(c, "sink_failed") = 0)
            => /\ comments[c].moderation_status \in Terminal
               /\ Made(c, "crashed") = 0

\* C17: when the status update raises, or finds no row, the run returns
\* with no error and no second update, and the row of the comment is as it
\* was, pending with no reason.
C17_SinkFailureSwallowed ==
    [][\A c \in Runs :
          (/\ tasks[c].pc = PcDb /\ tasks'[c] # tasks[c]
           /\ (c \in Logging("sink_failed") \/ ~comments[c].stored)) =>
              /\ tasks'[c].pc = PcDone
              /\ Count(tasks'[c].trace, "sink") = 1
              /\ Count(tasks'[c].trace, "crashed") = 0
              /\ comments' = comments
              /\ comments[c].moderation_status = "pending"
              /\ comments[c].moderation_reason = NoneVal]_vars

\* a run that returned from an update that raised, and a run that returned
\* from an update on a row no longer in the table
C17_Witness ==
    /\ \E c \in Runs :
          /\ Finished(c) /\ Made(c, "sink_failed") = 1 /\ comments[c].stored
          /\ comments[c].moderation_status = "pending"
    /\ \E c \in Runs :
          /\ Finished(c) /\ Made(c, "sink_failed") = 0 /\ ~comments[c].stored
          /\ tasks[c].status = "rejected"

\* the ids of a list response
Listed == {response.data[i].id : i \in DOMAIN response.data}

\* C18: a listing returns exactly the rows of the post asked for that are
\* not soft-deleted and whose status is pending or approved, each once; a
\* row that is rejected when the listing is made is not in it.
C18_ListingHidesRejected ==
    [][(response' # response /\ response'.route = "get_comments"
            /\ response'.code = 200) =>
          /\ {response'.data[i].id : i \in DOMAIN response'.data}
                = {c \in DOMAIN comments :
                      /\ comments[c].stored
                      /\ comments[c].post_id = response'.postId
                      /\ ~comments[c].is_deleted
                      /\ comments[c].moderation_status \in {"pending", "approved"}}
          /\ \A i, j \in DOMAIN response'.data :
                response'.data[i].id = response'.data[j].id => i = j
          /\ \A i \in DOMAIN response'.data :
                comments[response'.data[i].id].moderation_status # "rejected"]_vars

\* a listing of a post that has a pending comment, which is listed, and a
\* rejected one, which is not
C18_Witness ==
    /\ response.route = "get_comments" /\ response.code = 200
    /\ \E c \in Listed : comments[c].moderation_status = "pending"
    /\ \E c \in DOMAIN comments \ Listed :
          /\ comments[c].post_id = response.postId
          /\ comments[c].stored /\ ~comments[c].is_deleted
          /\ comments[c].moderation_status = "rejected"
          /\ Finished(c)

\* C19: the step that answers a creation request commits the comment as
\* pending and schedules its run, and no run takes a step in it: the
\* response is there while the run has not executed any stage.
C19_ResponseBeforeRun ==
    [][(response' # response /\ response'.route = "create_comment"
            /\ response'.code = 201) =>
          LET id == response'.data[1].id
          IN  /\ id \notin DOMAIN comments /\ id \in DOMAIN comments'
              /\ comments'[id].moderation_status = "pending"
              /\ comments'[id].moderation_reason = NoneVal
              /\ tasks'[id].pc = PcCreated /\ tasks'[id].trace = <<>>
              /\ \A c \in Runs : tasks'[c] = tasks[c] /\ comments'[c] = comments[c]]_vars

\* a creation answered, its run not started, while the run of an older
\* comment is under way
C19_Witness ==
    /\ response.route = "create_comment" /\ response.code = 201
    /\ tasks[response.data[1].id].pc = PcCreated
    /\ comments[response.data[1].id].moderation_status = "pending"
    /\ \E c \in Runs : tasks[c].pc = PcHttp

\* C20: the response of a creation holds the id and the fields of the
\* request and nothing of the moderation run, and it is the same wherever
\* that run is and however it has ended.
C20_ResponseIgnoresModeration ==
    (response.route = "create_comment" /\ response.code = 201) =>
        LET id == response.data[1].id
        IN  response.data =
              <<[id |-> id, postId |-> response.postId, content |-> tasks[id].content,
                 likes |-> 0, isLiked |-> FALSE,
                 replyTo |-> IF comments[id].reply_to_id = NoReply THEN NoReplyTo
                             ELSE [id |-> comments[id].reply_to_id,
                                   content |-> comments[comments[id].reply_to_id].content]]>>

\* the creation of a comment answered, and its run ended in a rejection;
\* or in a failed status update after a failed quota store and a timeout
C20_Witness ==
    /\ response.route = "create_comment" /\ response.code = 201
    /\ LET id == response.data[1].id
       IN  /\ Finished(id)
           /\ \/ comments[id].moderation_status = "rejected"
              \/ Made(id, "sink_failed") = 1 /\ Made(id, "incr_failed") = 1

\* C21: without a credential a call of the AI client sends no request and
\* returns (True, "").
C21_NoKeyNoRequest ==
    \A c \in Runs :
        (~settings.DEEPSEEK_API_KEY /\ AiCalls(c) > 0) =>
            /\ Requests(c) = 0 /\ tasks[c].pc # PcHttp
            /\ tasks[c].verdict = DefaultAllow
            /\ Made(c, "verdict:pass") = 1 /\ Made(c, "verdict:reject") = 0

\* a run that called the client without a credential and has ended
C21_Witness ==
    /\ ~settings.DEEPSEEK_API_KEY
    /\ \E c \in Runs : Finished(c) /\ AiCalls(c) = 1
                        /\ comments[c].moderation_status = "approved"

\* the runs that have made this event
Having(event) == {c \in Runs : Made(c, event) > 0}

\* C22: a run for a comment with a lexicon term that passed the quota check
\* and whose request to the AI service failed calls the status sink with
\* approved and no reason, and the increment it made stays in the counter
\* it was made on.
C22_FailedCallStillCounted ==
    /\ \A c \in Runs :
          (Requests(c) = 1 /\ tasks[c].pc \in {PcDb, PcDone}) =>
              /\ HasTerm(c) /\ Made(c, "check:ok") = 1
              /\ Increments(c) >= 1
              /\ FinalizedAs(c, "approved", NoneVal)
              /\ Finished(c) => comments[c].moderation_status \in {"approved", "pending"}
    /\ today = 1 =>
          /\ redis_store[1].count >= Cardinality(Having("shared+1"))
          /\ Having("local+1") # {} =>
                /\ _local_daily_calls.date = 1
                /\ _local_daily_calls.count = Cardinality(Having("local+1"))

\* a run whose request failed has ended, the comment is approved and the
\* shared counter holds its increment
C22_Witness ==
    /\ today = 1
    /\ \E c \in Runs :
          /\ Finished(c) /\ Requests(c) = 1 /\ Made(c, "shared+1") = 1
          /\ comments[c].moderation_status = "approved"
          /\ redis_store[1].count = tasks[c].current_count

\* the arguments the status sink is called with
SinkArguments ==
    {<<"approved", NoneVal>>, <<"rejected", Some(Spam)>>, <<"rejected", Some(<<>>)>>}

\* the table after the UPDATE of a call of the sink with these arguments
Updated(m, c, args) ==
    update_row([m EXCEPT !.tasks[c].status = args[1], !.tasks[c].reason = args[2]], c)

\* C23: the status update applied twice with the same arguments leaves the
\* table as the update applied once does, on every row and in every state
\* of the table.
C23_SinkIdempotent ==
    \A c \in DOMAIN comments : \A args \in SinkArguments :
        LET once == Updated(Memory, c, args)
        IN  /\ Updated(once, c, args).comments = once.comments
            /\ comments[c].stored =>
                  /\ once.comments[c].moderation_status = args[1]
                  /\ once.comments[c].moderation_reason = args[2]
            /\ \A d \in DOMAIN comments \ {c} : once.comments[d] = comments[d]

\* a row the sink has written as rejected with a reason, on which the same
\* update changes nothing
C23_Witness ==
    \E c \in Runs :
        /\ Finished(c) /\ comments[c].stored
        /\ comments[c].moderation_status = "rejected"
        /\ comments[c].moderation_reason = Some(Spam)
        /\ tasks[c].status = "rejected" /\ tasks[c].reason = Some(Spam)
        /\ update_row(Memory, c).comments = comments

\* C24: on one date the value a quota check reads is never below a value
\* an increment has returned before it.
C24_ReadsNeverDecrease ==
    [][\A c \in Logging("check:ok") \cup Logging("check:full") :
          today = 1 => \A d \in Recorded : CounterRead(c) >= tasks[d].current_count]_vars

\* C24 as the code has it: each of the two counters, taken on its own,
\* stays or grows by one in every step within a date
C24_EachCounterNeverDecreases ==
    [][/\ \A d \in Dates :
             redis_store'[d].count \in {redis_store[d].count, redis_store[d].count + 1}
       /\ _local_daily_calls'.date = _local_daily_calls.date =>
             _local_daily_calls'.count \in
                 {_local_daily_calls.count, _local_daily_calls.count + 1}]_vars

\* the forms of one verdict object: bare, in a fenced block with and
\* without a language, with prose around it
BareForm == Completion(RpBare)
FencedForms == {Completion(RpFenced), Completion(RpFencedPlain),
                Completion(RpFenceOneLine)}
ProseForms == {Completion(RpProseAround), Completion(RpPadded),
               Completion(RpBraceProse)}
\* the calls that have returned on one of these answers
Answered(forms) ==
    /\ client_call.stage = "returned"
    /\ ClientInputs[client_call.input].outcome \in forms

\* C25: a reply that is the verdict object {"pass": false, "reason":
\* "spam"} bare, in a fenced block, or with prose before or after it,
\* resolves to (False, "spam").
C25_WrappedSameAsBare ==
    Answered({BareForm} \cup FencedForms \cup ProseForms) =>
        (~client_call.raised /\ client_call.value = Verdict(FALSE, Spam))

\* C25 as the code has it: the same, when the fence markers stand on
\* lines of their own and the prose has no brace
C25_WrappedSameAsBareOnOwnLines ==
    Answered({BareForm, Completion(RpFenced), Completion(RpFencedPlain),
              Completion(RpFenceOpen), Completion(RpProseAround),
              Completion(RpPadded)}) =>
        (~client_call.raised /\ client_call.value = Verdict(FALSE, Spam))

\* replies whose pass is a string that is "true", "1" or "yes" in some
\* case, and replies whose pass is another string
TruePassStrings == {Completion(RpYes), Completion(RpYesUpper),
                    Completion(RpOne), Completion(RpTrueStr)}
OtherPassStrings == {Completion(RpNo), Completion(RpFalseStr),
                     Completion(RpEmptyStr), Completion(RpSpaceTrue)}

\* C26: when pass is a string the verdict is true exactly when the string
\* is "true", "1" or "yes" whatever its case, false for any other string.
C26_StringPass ==
    /\ Answered(TruePassStrings) => (~client_call.raised /\ client_call.value.is_pass)
    /\ Answered(OtherPassStrings) => (~client_call.raised /\ ~client_call.value.is_pass)

\* a call has returned true on the reply whose pass is "YES"
C26_Witness ==
    /\ Answered({Completion(RpYesUpper)})
    /\ client_call.value = Verdict(TRUE, <<>>)

\* the events that mark where a stage starts and where it returns
PrefilterTrue == {"prefilter:hit"}
CheckStart == {"check"}
CheckTrue == {"check:ok"}
CheckReturn == {"check:ok", "check:full"}
IncrementStart == {"incr"}
IncrementReturn == {"local+1", "shared+1"}
AiStart == {"classify"}
AiReturn == {"verdict:pass", "verdict:reject"}
UpdateStart == {"sink"}
\* in the trace of run c every event of later has one of earlier before it
Precedes(c, earlier, later) ==
    LET t == tasks[c].trace
    IN  \A j \in DOMAIN t :
            t[j] \in later => \E i \in 1..(j - 1) : t[i] \in earlier
\* in the trace of run c no event of earlier comes after one of later
NoneAfter(c, later, earlier) ==
    LET t == tasks[c].trace
    IN  \A i, j \in DOMAIN t : (t[i] \in later /\ i < j) => t[j] \notin earlier

\* C27: in one run the quota check starts only after the prefilter found
\* a term, the increment only after the check returned true, the AI call
\* only after the increment returned, the status update only after the AI
\* call returned; no stage is entered again once a later one has started.
C27_StagesInOrder ==
    \A c \in Runs :
        /\ Precedes(c, PrefilterTrue, CheckStart)
        /\ Precedes(c, CheckStart, CheckReturn)
        /\ Precedes(c, CheckTrue, IncrementStart)
        /\ Precedes(c, IncrementStart, IncrementReturn)
        /\ Precedes(c, IncrementReturn, AiStart)
        /\ Precedes(c, AiStart, AiReturn)
        /\ AiCalls(c) > 0 => Precedes(c, AiReturn, UpdateStart)
        /\ AiCalls(c) > 0 => OutsideIncrement(c)
        /\ NoneAfter(c, CheckStart, PrefilterTrue)
        /\ NoneAfter(c, IncrementStart, CheckStart \cup CheckReturn)
        /\ NoneAfter(c, AiStart, IncrementStart \cup IncrementReturn)
        /\ NoneAfter(c, UpdateStart, AiStart \cup AiReturn)
        /\ tasks[c].pc = PcHttp => (Made(c, "sink") = 0 /\ Made(c, "post") = 1)
        /\ tasks[c].pc \in {PcCheckPing, PcCheckGet} => Increments(c) = 0 /\ AiCalls(c) = 0

\* a run has gone through all five stages and its status update has returned
C27_Witness ==
    \E c \in Runs :
        /\ Finished(c) /\ Made(c, "prefilter:hit") = 1 /\ Made(c, "check:ok") = 1
        /\ Made(c, "shared+1") = 1 /\ Made(c, "post") = 1
        /\ Made(c, "verdict:reject") = 1 /\ Made(c, "sink") = 1

\* the runs the quota check has admitted
Admitted == Having("check:ok")

\* C28: the increment is made without looking at the cap again: a run the
\* check has admitted counts and calls the AI client whatever the counter
\* has become since, so runs admitted together at cap - 1 take the counter
\* above the cap.
C28_AdmittedRunsAllCall ==
    \A c \in Admitted :
        /\ Made(c, "check:full") = 0
        /\ tasks[c].pc \in {PcHttp, PcDb, PcDone} =>
              (Increments(c) >= 1 /\ AiCalls(c) = 1)

\* two runs read the shared counter at cap - 1 before either incremented
\* it, both were admitted, both incremented it and both called the AI
\* client on that date: the counter is above the cap
C28_Witness ==
    /\ today = 1
    /\ Cardinality(Admitted) = MODERATION_DAILY_LIMIT + 1
    /\ \A c \in Admitted :
          /\ Made(c, "redis_get") = 1 /\ Made(c, "get_failed") = 0
          /\ Made(c, "shared+1") = 1 /\ Made(c, "local+1") = 0
          /\ Requests(c) = 1
    /\ redis_store[1].count = MODERATION_DAILY_LIMIT + 1
    /\ settings.MODERATION_DAILY_LIMIT = MODERATION_DAILY_LIMIT

\* C29: in every run the AI client is called at most once, at most one
\* request is sent and a quota counter is incremented at most once,
\* whatever the answer of the AI service.
C29_NoRetry ==
    \A c \in Runs :
        AiCalls(c) <= 1 /\ Requests(c) <= 1 /\ Increments(c) <= 1

\* C29 as the code has it: the client is called and the request sent at
\* most once and each counter is incremented at most once; a second
\* increment, on the in-process counter, is made only after r.expire raised
C29_NoRetryOfTheCall ==
    \A c \in Runs :
        /\ AiCalls(c) <= 1 /\ Requests(c) <= 1
        /\ Made(c, "shared+1") <= 1 /\ Made(c, "local+1") <= 1
        /\ Made(c, "expire_failed") = 0 => Increments(c) <= 1
        /\ Made(c, "sink") <= 1

\* the failures of the shared store: the connection, the GET, the INCR
StoreFailures == {"connect_failed", "get_failed", "incr_failed"}
\* run c logs the event in this step
Logs(c, event) == Count(tasks'[c].trace, event) > Count(tasks[c].trace, event)
\* a failure of the shared store reaches run c in this step, inside the
\* quota check and inside the increment
FailingInCheck(c) ==
    /\ tasks[c].pc \in {PcCheckPing, PcCheckGet}
    /\ Logs(c, "connect_failed") \/ Logs(c, "get_failed")
FailingInIncrement(c) ==
    /\ tasks[c].pc \in {PcIncrPing, PcIncrIncr}
    /\ Logs(c, "connect_failed") \/ Logs(c, "incr_failed")

\* C30: when the connection, the GET or the INCR fails, the quota check
\* answers from the in-process counter and the increment returns the new
\* value of the in-process counter, no error leaves the quota operation,
\* and a run that met such a failure ends with its status update made.
C30_StoreFailureNeverStops ==
    [][\A c \in Runs :
          tasks'[c] # tasks[c] =>
              /\ FailingInCheck(c) =>
                    /\ Logs(c, "local_read")
                    /\ Logs(c, "check:ok") <=>
                          CounterRead(c) < settings.MODERATION_DAILY_LIMIT
                    /\ Logs(c, "check:full") <=>
                          CounterRead(c) >= settings.MODERATION_DAILY_LIMIT
              /\ FailingInIncrement(c) =>
                    /\ Logs(c, "local+1") /\ Logs(c, "classify")
                    /\ _local_daily_calls'.date = today
                    /\ tasks'[c].current_count = _local_daily_calls'.count
              /\ Count(tasks'[c].trace, "crashed") = 0
              /\ (tasks'[c].pc = PcDone
                     /\ \E e \in StoreFailures : Count(tasks'[c].trace, e) > 0) =>
                    Count(tasks'[c].trace, "sink") = 1]_vars

\* a run whose GET and whose INCR both failed has counted its call on the
\* in-process counter and has ended with the comment rejected
C30_Witness ==
    \E c \in Runs :
        /\ Finished(c) /\ Made(c, "get_failed") = 1 /\ Made(c, "incr_failed") = 1
        /\ Made(c, "local+1") = 1 /\ Made(c, "shared+1") = 0
        /\ comments[c].moderation_status = "rejected"

(* ------------------------------------------------------------------ *)
(* Moderation runs one at a time                                       *)
(* ------------------------------------------------------------------ *)
\* no run is between its start and its return
NoneInFlight == \A d \in DOMAIN tasks : tasks[d].pc \in {PcCreated, PcDone}

\* the event loop starts a task when no other run is in flight
BeginSerial(c) ==
    /\ NoneInFlight
    /\ Begin(c)

NextSerial ==
    \/ \E content \in Contents : create_comment(content, FirstPost, NoReply)
    \/ \E c \in DOMAIN tasks : BeginSerial(c)
    \/ \E c \in DOMAIN tasks, ok \in BOOLEAN : PingReturn(c, ok)
    \/ \E c \in DOMAIN tasks, ok \in BOOLEAN : GetReturn(c, ok)
    \/ \E c \in DOMAIN tasks, ok \in BOOLEAN : IncrReturn(c, ok)
    \/ \E c \in DOMAIN tasks, ok \in BOOLEAN : ExpireReturn(c, ok)
    \/ \E c \in DOMAIN tasks, i \in DOMAIN HttpOutcomes : HttpReturn(c, HttpOutcomes[i])
    \/ \E c \in DOMAIN tasks, ok \in BOOLEAN : DbReturn(c, ok)
    \/ DayRollover

SpecSerial == Init /\ [][NextSerial]_vars

\* the events of a failure of the shared store
StoreFailureEvents == {"connect_failed", "get_failed", "incr_failed", "expire_failed"}
\* no run has met a failure of the shared store
NoStoreFailure ==
    \A c \in Runs : \A e \in StoreFailureEvents : Made(c, e) = 0

\* C31: with the runs one at a time, the AI calls made on one date are at
\* most the cap, whatever the shared store does during that date.
C31_SerialWithinCap ==
    today = 1 => Cardinality(Having("classify")) <= settings.MODERATION_DAILY_LIMIT

\* C31 as the code has it: the same while the shared store has not failed
C31_SerialWithinCapNoFailure ==
    (today = 1 /\ NoStoreFailure) =>
        Cardinality(Having("classify")) <= settings.MODERATION_DAILY_LIMIT

\* the store mode has not changed: every quota operation so far has used
\* the shared counter, or every one has used the in-process counter
SharedOnly == NoStoreFailure
LocalOnly ==
    /\ ~_redis_available
    /\ \A c \in Runs : Made(c, "redis_get") = 0 /\ Made(c, "redis_incr") = 0
\* the bound on the counter with as many runs in flight as there are runs
OvershootBound == settings.MODERATION_DAILY_LIMIT + (MaxComments - 1)

\* C32: while the store mode has not changed, the counter of every date
\* is at most cap + (N - 1) with N runs in flight; each run increments at
\* most once, and only after a check that read a value below the cap.
C32_BoundedOvershoot ==
    /\ SharedOnly => \A d \in Dates : redis_store[d].count <= OvershootBound
    /\ LocalOnly => _local_daily_calls.count <= OvershootBound
    /\ (SharedOnly \/ LocalOnly) =>
          \A c \in Runs :
              /\ Increments(c) <= 1
              /\ Increments(c) = 1 => Made(c, "check:ok") = 1

\* with the store never failing, two runs in flight together have taken
\* the shared counter to cap + 1
C32_Witness ==
    /\ SharedOnly /\ today = 1
    /\ redis_store[1].count = OvershootBound
    /\ Cardinality(Having("shared+1")) = MaxComments
    /\ \A c \in Runs : Finished(c)

\* _increment_api_calls returns to run c in this step: the next statement
\* of moderate_comment is the call of the AI client
IncrementReturns(c) == Logs(c, "classify")
\* the call that returns raised the shared counter alone and returns the
\* value INCR gave
RaisedShared(c) ==
    /\ Count(tasks'[c].trace, "shared+1") = 1
    /\ Count(tasks'[c].trace, "local+1") = 0
    /\ tasks'[c].current_count = tasks[c].count
\* the call that returns raised the in-process counter alone and returns
\* its new value
RaisedLocal(c) ==
    /\ Count(tasks'[c].trace, "shared+1") = 0
    /\ Count(tasks'[c].trace, "local+1") = 1
    /\ _local_daily_calls'.count = reset_local(_local_daily_calls).count + 1
    /\ tasks'[c].current_count = _local_daily_calls'.count

\* C33: a call of _increment_api_calls raises one counter by one, the
\* shared one or the in-process one and not both, and returns the new
\* value of that counter.
C33_OneCounterRaised ==
    [][\A c \in Runs :
          (tasks'[c] # tasks[c] /\ IncrementReturns(c)) =>
              (RaisedShared(c) \/ RaisedLocal(c))]_vars

\* C33 as the code has it: the same for the calls whose EXPIRE did not fail
C33_OneCounterRaisedUnlessExpireFails ==
    [][\A c \in Runs :
          (tasks'[c] # tasks[c] /\ IncrementReturns(c)
             /\ Count(tasks'[c].trace, "expire_failed") = 0) =>
              (RaisedShared(c) \/ RaisedLocal(c))]_vars

\* replies whose object has pass: false, the boolean
FalsePassReplies == {Completion(RpBare), Completion(RpFenced),
                     Completion(RpFencedPlain), Completion(RpFenceOpen),
                     Completion(RpProseAround), Completion(RpPadded),
                     Completion(RpAdvert), Completion(RpRejectNoReason),
                     Completion(RpNested), Completion(RpWrapped)}
\* replies whose object has a pass that is null, the number 0, an empty list
FalsyPassReplies == {Completion(RpNull), Completion(RpZero), Completion(RpList)}
\* the call has returned pass = false
ReturnedFalse ==
    /\ client_call.stage = "returned"
    /\ ~client_call.raised /\ ~client_call.value.is_pass

\* C34: the client returns pass = false only on a reply object whose pass
\* is the boolean false or a string other than "true", "1", "yes"; a pass
\* that is missing, null or of another type never gives a rejection.
C34_FalseOnlyOnFalse ==
    ReturnedFalse =>
        ClientInputs[client_call.input].outcome \in FalsePassReplies \cup OtherPassStrings

\* C34 as the code has it: pass = false also on a pass that bool() takes
\* for false: null, 0, an empty list
C34_FalseOnlyOnFalsy ==
    ReturnedFalse =>
        ClientInputs[client_call.input].outcome
            \in FalsePassReplies \cup OtherPassStrings \cup FalsyPassReplies

\* a comment listing is answered in this step
ListingAnswered ==
    response' # response /\ response'.route = "get_comments" /\ response'.code = 200

\* C35: in a listing no element is a rejected comment and no element's
\* replyTo preview is that of a rejected comment.
C35_NoRejectedContentListed ==
    [][ListingAnswered =>
          \A i \in DOMAIN response'.data :
              LET e == response'.data[i]
              IN  /\ comments[e.id].moderation_status # "rejected"
                  /\ e.replyTo # NoReplyTo =>
                        comments[e.replyTo.id].moderation_status # "rejected"]_vars

\* C35 as the code has it: no element is a rejected comment; the replyTo
\* preview is that of the row replied to, whatever its status and whether
\* it is soft-deleted or not
C35_NoRejectedRowListed ==
    [][ListingAnswered =>
          \A i \in DOMAIN response'.data :
              LET e == response'.data[i]
                  target == comments[e.id].reply_to_id
              IN  /\ comments[e.id].moderation_status # "rejected"
                  /\ e.replyTo = IF target # NoReply /\ comments[target].stored
                                 THEN ReplyTo(target) ELSE NoReplyTo]_vars

\* the columns of a row that the status sink does not name
Frame(row) ==
    [content |-> row.content, post_id |-> row.post_id,
     reply_to_id |-> row.reply_to_id, likes |-> row.likes,
     is_deleted |-> row.is_deleted, stored |-> row.stored]
\* the status and the reason of row c change in this step
Finalizes(c) ==
    \/ comments'[c].moderation_status # comments[c].moderation_status
    \/ comments'[c].moderation_reason # comments[c].moderation_reason

\* C36: a step changes the status and the reason of a row only as the
\* return of the status update of that row's own run, to the arguments of
\* that call; it changes no other column of the row and no other row.
C36_SinkWritesOnlyItsRow ==
    [][\A c \in DOMAIN comments :
          /\ Frame(comments'[c]) = Frame(comments[c])
          /\ Finalizes(c) =>
                /\ tasks[c].pc = PcDb /\ tasks'[c].pc = PcDone
                /\ comments'[c].moderation_status = tasks[c].status
                /\ comments'[c].moderation_reason = tasks[c].reason
                /\ \A d \in DOMAIN comments \ {c} : comments'[d] = comments[d]]_vars

\* two runs have finalized, one row approved and one rejected, and the
\* liked row still has its likes
C36_Witness ==
    \E c, d \in Runs :
        /\ Finished(c) /\ Finished(d)
        /\ comments[c].moderation_status = "rejected" /\ comments[c].likes = MaxLikes
        /\ comments[d].moderation_status = "approved" /\ comments[d].likes = 0
        /\ comments[c].moderation_reason = Some(Spam)
        /\ comments[d].moderation_reason = NoneVal

(* ------------------------------------------------------------------ *)
(* The like toggle                                                     *)
(* ------------------------------------------------------------------ *)
\* LikeResponse
LikeResponse(is_liked, likes) == [isLiked |-> is_liked, likes |-> likes]
\* a comment id no row has
MissingComment == MaxComments + 1
\* the rows of comment_likes of one comment
RECURSIVE LikeRowsUpTo(_, _)
LikeRowsUpTo(c, ip) ==
    IF ip = 0 THEN 0 ELSE comment_likes[<<c, ip>>] + LikeRowsUpTo(c, ip - 1)
LikeRows(c) == LikeRowsUpTo(c, MaxClients)

\* lines 258-267: the comment is selected; 404 when no row that is not
\* soft-deleted has the id.  The session's first SELECT opens the
\* transaction, whose reads are of the rows committed at that time.
toggle_like_comment(r, commentId, ip) ==
    /\ like_requests[r].pc = "idle"
    /\ IF \/ commentId \notin DOMAIN comments
          \/ ~comments[commentId].stored
          \/ comments[commentId].is_deleted
       THEN /\ response' = Response(404, <<>>, "toggle_like_comment", 0)
            /\ UNCHANGED like_requests
       ELSE /\ comments[commentId].likes < MaxLikeCount
            /\ like_requests' = [like_requests EXCEPT ![r] =
                    [pc |-> "like_query", comment_id |-> commentId, client_ip |-> ip,
                     likes |-> comments[commentId].likes,
                     existing |-> comment_likes[<<commentId, ip>>]]]
            /\ UNCHANGED response
    /\ UNCHANGED <<_redis_client, _redis_available, _local_daily_calls, redis_store,
                   today, settings, comments, tasks, client_call, comment_likes>>

\* lines 271-277: the like row of this IP is selected; scalar_one_or_none
\* raises when there is more than one, and the request ends in a 500
like_query_return(r) ==
    /\ like_requests[r].pc = "like_query"
    /\ IF like_requests[r].existing > 1
       THEN /\ response' = Response(500, <<>>, "toggle_like_comment",
                                    like_requests[r].comment_id)
            /\ like_requests' = [like_requests EXCEPT ![r] = LikeIdle]
       ELSE /\ like_requests' = [like_requests EXCEPT ![r].pc = "commit"]
            /\ UNCHANGED response
    /\ UNCHANGED <<_redis_client, _redis_available, _local_daily_calls, redis_store,
                   today, settings, comments, tasks, client_call, comment_likes>>

\* line 293: new_likes = comment.likes + 1
new_likes_added(likes) == likes + 1
\* line 282: new_likes = max(0, comment.likes - 1)
new_likes_removed(likes) == IF likes - 1 > 0 THEN likes - 1 ELSE 0

\* lines 279-299: the like row is deleted or added, likes is set to the
\* value computed from the one read at the start, and the transaction is
\* committed; the UPDATE holds the row's lock until the commit, so the
\* writes of a request become visible together
toggle_like_commit(r) ==
    /\ like_requests[r].pc = "commit"
    /\ LET c == like_requests[r].comment_id
           key == <<c, like_requests[r].client_ip>>
           existing_like == like_requests[r].existing = 1
           new_likes == IF existing_like
                        THEN new_likes_removed(like_requests[r].likes)
                        ELSE new_likes_added(like_requests[r].likes)
       IN  /\ comment_likes' = [comment_likes EXCEPT ![key] =
                   IF existing_like THEN (IF @ > 0 THEN @ - 1 ELSE 0) ELSE @ + 1]
           /\ comments' = IF comments[c].stored
                          THEN [comments EXCEPT ![c].likes = new_likes]
                          ELSE comments
           /\ response' = Response(200, <<LikeResponse(~existing_like, new_likes)>>,
                                   "toggle_like_comment", c)
    /\ like_requests' = [like_requests EXCEPT ![r] = LikeIdle]
    /\ UNCHANGED <<_redis_client, _redis_available, _local_daily_calls, redis_store,
                   today, settings, tasks, client_call>>

\* A table of moderated comments with no like yet, and no request made.
LikedRows ==
    [content : {ContentClean}, post_id : {FirstPost}, likes : {0}, reply_to_id : {NoReply},
     is_deleted : BOOLEAN, stored : {TRUE}, progress : {"done:approved"}]

InitLikes ==
    /\ _redis_client = "None"
    /\ _redis_available = TRUE
    /\ _local_daily_calls = [date |-> NoDate, count |-> 0]
    /\ today = 1
    /\ redis_store = [d \in Dates |-> NoKey]
    /\ settings = [MODERATION_ENABLED |-> TRUE, DEEPSEEK_API_KEY |-> TRUE,
                   MODERATION_DAILY_LIMIT |-> MODERATION_DAILY_LIMIT]
    /\ client_call = ClientIdle
    /\ response = NoResponse
    /\ comment_likes = NoLikes
    /\ like_requests = NoLikeRequests
    /\ \E n \in 1..MaxComments :
          \E t \in [1..n -> LikedRows] :
             LET m == AdvanceAll(TableMemory(t), [c \in 1..n |-> t[c].progress], 1)
             IN  comments = m.comments /\ tasks = m.tasks

NextLikes ==
    \/ \E r \in 1..MaxRequests, commentId \in 1..MissingComment, ip \in Clients :
          toggle_like_comment(r, commentId, ip)
    \/ \E r \in 1..MaxRequests : like_query_return(r)
    \/ \E r \in 1..MaxRequests : toggle_like_commit(r)

SpecLikes == InitLikes /\ [][NextLikes]_vars

\* no like request is in flight
NoLikeInFlight == \A r \in 1..MaxRequests : like_requests[r].pc = "idle"

\* no IP has two like rows for one comment
OneRowPerClient == \A k \in LikeKeys : comment_likes[k] <= 1

\* C37: likes is never negative and, when no like request is in flight
\* and no IP has liked a comment twice over, the likes of every comment
\* is the number of like rows stored for it.
C37_LikesMatchRows ==
    /\ \A c \in DOMAIN comments : comments[c].likes >= 0
    /\ (NoLikeInFlight /\ OneRowPerClient) =>
          \A c \in DOMAIN comments : comments[c].likes = LikeRows(c)

\* C37 as the code has it: likes is never negative, and a request writes
\* the value it read at its start plus or minus one
C37_LikesNeverNegative ==
    \A c \in DOMAIN comments : comments[c].likes \in 0..MaxLikeCount

\* get_redis hands a handle to run c in this step: the run sends a command
HandedOut(c) == Logs(c, "redis_get") \/ Logs(c, "redis_incr")

\* C38: when the flag is false the cached handle is None and get_redis
\* returns None without connecting; from a state where the flag is false
\* no step opens a connection or hands a handle to a run.
C38_NoHandleWhenUnavailable ==
    [][/\ ~_redis_available' => _redis_client' = "None"
       /\ ~_redis_available =>
             /\ _redis_client = "None"
             /\ \A c \in Runs :
                   /\ get_redis(Memory, c).r = "None" /\ ~get_redis(Memory, c).ping
                   /\ ~HandedOut(c) /\ ~Logs(c, "connect")]_vars

\* while the ping of the first connection was awaited another run was
\* handed the cached handle and sent its GET; the ping then failed: the
\* flag is false and the cache is empty
C38_Witness ==
    /\ ~_redis_available /\ _redis_client = "None"
    /\ \E c, d \in Runs :
          /\ Made(c, "connect") = 1 /\ Made(c, "connect_failed") = 1
          /\ Made(d, "connect") = 0 /\ Made(d, "redis_get") = 1
          /\ tasks[d].pc = PcCheckGet
====
